---- MODULE Spec2Model ----
(***************************************************************************)
(* A model of the convention index of laravel-enhanced: the route index    *)
(* (EnhancedRouteInlayProvider), the model/migration index                 *)
(* (LaravelIntelligentCompletionProvider), the translation catalog         *)
(* (TranslationProvider, TranslationDiagnosticsProvider), the config/env   *)
(* key sets (ConfigCompletionProvider) and the validation rule registry    *)
(* (LaravelValidationCompletionProvider).                                  *)
(*                                                                         *)
(* The providers are separate objects that share no state.  A behaviour    *)
(* follows one of them (variable component); the others stay as            *)
(* constructed on an empty workspace.  The validation provider is followed *)
(* either through its schema analysis ("tables") or through the completion *)
(* requests it answers from its rule registry ("rules").                   *)
(*                                                                         *)
(* Source text is modelled after the regular expressions of the code have  *)
(* been applied: a route file is the sequence of its lines, each line the  *)
(* record of the capture groups the code's patterns extract from it.       *)
(* A JavaScript Map is a sequence of [k, v] entries in insertion order.    *)
(* Strings whose characters the code inspects are sequences of symbols:    *)
(* a uri or prefix is a sequence of path segments and '/' symbols, a       *)
(* controller name a sequence of words, so that replace('//', '/'),        *)
(* endsWith('Controller') and replace('Controller', '') are computed.      *)
(***************************************************************************)
EXTENDS Integers, Sequences, FiniteSets, TLC

VARIABLES
    component,        \* the provider this behaviour follows
    lastOp,           \* the operation that produced the current state
    \* ---- EnhancedRouteInlayProvider
    routeFs,          \* the routes/ directory: whether it exists, and its files
    routes,           \* this.routes: Map<filePath, RouteInfo[]>
    controllerRoutes, \* this.controllerRoutes: Map<key, RouteInfo[]>
    routeEvents,      \* file-watcher notifications not yet delivered
    \* ---- LaravelIntelligentCompletionProvider
    schemaFs,         \* database/migrations and app/Models: their files
    migrations,       \* this.migrations: Map<table, ModelField[]>
    models,           \* this.models: Map<name, ModelInfo>
    schemaEvents,     \* undelivered notifications of the migration and model watchers
    \* ---- ConfigCompletionProvider
    configFs,         \* the config/ directory and the .env files
    configKeys,       \* this.configKeys: Set<string>
    envKeys,          \* this.envKeys: Set<string>
    configEvents,     \* undelivered notifications of the config and env watchers
    \* ---- LaravelValidationCompletionProvider
    tablesFs,         \* database/migrations as this provider reads it
    databaseTables,   \* this.databaseTables: Map<table, DatabaseTable>
    tableEvents,      \* undelivered notifications of the migration watcher
    \* ---- TranslationProvider
    langFs,           \* the translation files of lang/ and resources/lang/
    sourceFs,         \* the project files the usage scans read
    translations,     \* this.translations: Map<key, TranslationKey[]>
    usages,           \* this.usages: TranslationUsage[]
    scans,            \* findFiles requests of scanForUsages not yet answered, and
                      \* whether the reload in progress is the only one with
                      \* requests outstanding and the files are as it read them
    langEvents,       \* undelivered notifications of the translation watchers
    \* ---- callers
    answer,           \* what the last request of a caller returned
    held,             \* a value a caller got from a lookup and kept
    prevBuild         \* per extractor: the index its last completed rebuild left, while
                      \* the files it read are as they were

routeVars == <<routeFs, routes, controllerRoutes, routeEvents>>
schemaVars == <<schemaFs, migrations, models, schemaEvents>>

configVars == <<configFs, configKeys, envKeys, configEvents>>
tableVars == <<tablesFs, databaseTables, tableEvents>>
translationVars == <<langFs, sourceFs, translations, usages, scans, langEvents>>

vars == <<component, lastOp, routeVars, schemaVars, configVars, tableVars, translationVars,
          answer, held, prevBuild>>

otherThanRoutes == <<schemaVars, configVars, tableVars, translationVars, answer>>
otherThanSchema == <<routeVars, configVars, tableVars, translationVars, answer>>
otherThanConfig == <<routeVars, schemaVars, tableVars, translationVars, answer>>
otherThanTables == <<routeVars, schemaVars, configVars, translationVars, answer>>
otherThanTranslations == <<routeVars, schemaVars, configVars, tableVars>>

(***************************************************************************)
(* Bounds                                                                  *)
(***************************************************************************)
MaxLines == 3      \* lines of routes/web.php when the files do not change
MaxShort == 1      \* lines of a file when files are written and deleted
MaxMigrations == 2 \* migration files in database/migrations
MaxEvents == 1     \* undelivered watcher notifications per watcher

None == "None"

\* A file of the workspace: its content, or no such file
File(content) == [exists |-> TRUE, content |-> content, throws |-> FALSE]
NoFile == [exists |-> FALSE, content |-> <<>>, throws |-> FALSE]
\* a file that is listed and exists but whose readFileSync throws (no
\* permission, a directory of that name)
Unreadable == [exists |-> TRUE, content |-> <<>>, throws |-> TRUE]

\* try { const content = fs.readFileSync(filePath, 'utf8'); ... }
\* catch (error) { console.error(...) }: the read is the first statement and
\* the only one that throws, so a file that throws leaves the container as it
\* was before the call
tryParse(file, before, after) == IF file.throws THEN before ELSE after

(***************************************************************************)
(* Sequences and Maps                                                      *)
(***************************************************************************)
SeqsUpTo(S, n) == UNION {[1..k -> S] : k \in 0..n}

Range(s) == {s[i] : i \in 1..Len(s)}

\* Array.prototype.find / findIndex: the first index whose element satisfies
\* the test, 0 when there is none
RECURSIVE FindFrom(_, _, _)
FindFrom(s, Test(_), i) ==
    IF i > Len(s) THEN 0
    ELSE IF Test(s[i]) THEN i
    ELSE FindFrom(s, Test, i + 1)

FindIndex(s, Test(_)) == FindFrom(s, Test, 1)

\* Map.has / Map.get / Map.set on a sequence of [k, v] entries
MapIndex(m, key) == LET IsKey(e) == e.k = key IN FindIndex(m, IsKey)
MapHas(m, key) == MapIndex(m, key) # 0
MapGet(m, key) == m[MapIndex(m, key)].v
MapSet(m, key, val) ==
    IF MapHas(m, key)
    THEN [m EXCEPT ![MapIndex(m, key)] = [k |-> key, v |-> val]]
    ELSE Append(m, [k |-> key, v |-> val])
MapKeys(m) == {m[i].k : i \in 1..Len(m)}
EmptyMap == <<>>

\* Map.prototype.clear, Set.prototype.clear, and a variant that keeps the entries
keepEntries(container) == container

clear(container) == <<>>

\* String.prototype.replace(pattern, by) with a string pattern: the first
\* occurrence only
RECURSIVE ReplaceFirstFrom(_, _, _, _)
ReplaceFirstFrom(s, pat, by, i) ==
    IF i + Len(pat) - 1 > Len(s) THEN s
    ELSE IF SubSeq(s, i, i + Len(pat) - 1) = pat
         THEN SubSeq(s, 1, i - 1) \o by \o SubSeq(s, i + Len(pat), Len(s))
         ELSE ReplaceFirstFrom(s, pat, by, i + 1)

ReplaceFirst(s, pat, by) == ReplaceFirstFrom(s, pat, by, 1)

EndsWith(s, suffix) ==
    /\ Len(s) >= Len(suffix)
    /\ SubSeq(s, Len(s) - Len(suffix) + 1, Len(s)) = suffix

(***************************************************************************)
(* EnhancedRouteInlayProvider: route files                                 *)
(***************************************************************************)
Slash == "/"
Ctl == "Controller"

\* A line of a route file, as the patterns of parseRouteFile, parseRouteGroup
\* and parseRouteLine see it.
\*   kind "group": the line includes 'Route::group('; middleware is the list in
\*                 'middleware' => [...] (<<>>: no such attribute), prefix the
\*                 string in 'prefix' => '...' (<<>>: no such attribute)
\*   kind "close": the trimmed line is exactly '});'
\*   kind "route": a Route::verb(...) declaration of the given shape
\*   kind "name":  a line holding only ->name('...')
Line(kind, middleware, prefix, shape, verb, uri, controller, controllerMethod, name) ==
    [kind |-> kind, middleware |-> middleware, prefix |-> prefix, shape |-> shape,
     verb |-> verb, uri |-> uri, controller |-> controller,
     controllerMethod |-> controllerMethod, name |-> name]

GroupLine(middleware, prefix) ==
    Line("group", middleware, prefix, None, None, <<>>, <<>>, None, None)
CloseLine == Line("close", <<>>, <<>>, None, None, <<>>, <<>>, None, None)
NameLine(name) == Line("name", <<>>, <<>>, None, None, <<>>, <<>>, None, name)
RouteLine(shape, verb, uri, controller, controllerMethod, name) ==
    Line("route", <<>>, <<>>, shape, verb, uri, controller, controllerMethod, name)

\* Route::group(['middleware' => ['auth'], 'prefix' => 'admin'], function () {
GroupAdmin == GroupLine(<<"auth">>, <<"admin">>)
\* Route::group(['middleware' => ['verified'], 'prefix' => 'v1/'], function () {
GroupV1 == GroupLine(<<"verified">>, <<"v1", Slash>>)
\* Route::get('users', 'UserController@index');
GetUsers == RouteLine("string", "get", <<"users">>, <<"User", Ctl>>, "index", None)
\* Route::post('/posts', [Post::class, 'store'])->name('posts.store');
PostPosts == RouteLine("array", "post", <<Slash, "posts">>, <<"Post">>, "store", "posts.store")
\* Route::resource('photos', PhotoController::class);
ResourcePhotos == RouteLine("resource", "resource", <<"photos">>, <<"Photo", Ctl>>, None, None)
\* Route::apiResource('photos', PhotoController::class);
ApiResourcePhotos ==
    RouteLine("resource", "apiResource", <<"photos">>, <<"Photo", Ctl>>, None, None)
\* ->name('users.index');
NameUsers == NameLine("users.index")

WebLines == {GroupAdmin, GroupV1, CloseLine, GetUsers, PostPosts, ResourcePhotos, NameUsers}
ApiLines == {GetUsers, ResourcePhotos, ApiResourcePhotos}

RouteFileNames == <<"api.php", "web.php">>

ApiContents == SeqsUpTo(ApiLines, 1)

(***************************************************************************)
(* EnhancedRouteInlayProvider: parsing                                     *)
(***************************************************************************)
ToUpperCase(verb) ==
    CASE verb = "get" -> "GET"
      [] verb = "post" -> "POST"
      [] verb = "put" -> "PUT"
      [] verb = "patch" -> "PATCH"
      [] verb = "delete" -> "DELETE"
      [] OTHER -> verb

ResourceMethods == <<"GET", "POST", "PUT", "PATCH", "DELETE">>

\* addRoute: push onto the list of the route's file, creating it on first use
addRoute(rs, route) ==
    MapSet(rs, route.filePath,
           IF MapHas(rs, route.filePath)
           THEN Append(MapGet(rs, route.filePath), route)
           ELSE <<route>>)

\* const fullUri = groupPrefix ? `${groupPrefix}/${uri}`.replace('//', '/') : uri
fullUri(groupPrefix, uri) ==
    IF groupPrefix # <<>>
    THEN ReplaceFirst(groupPrefix \o <<Slash>> \o uri, <<Slash, Slash>>, <<Slash>>)
    ELSE uri

\* parseRouteGroup(line, currentMiddleware, currentPrefix): the middleware
\* array is the caller's array and is extended in place; currentPrefix is a
\* string parameter, so the assignment at line 101 changes the callee's copy
\* only and the caller's currentPrefix keeps its value.
parseRouteGroup(line, currentMiddleware, currentPrefix) ==
    [middleware |-> currentMiddleware \o line.middleware,
     prefix |-> currentPrefix]

\* A variant of the ->name(...) rule that names the last route of the file
\* however far it is
nameLastRouteAnywhere(rs, line, lineNumber, filePath) ==
    IF line.name # None /\ MapHas(rs, filePath)
    THEN LET list == MapGet(rs, filePath)
         IN  MapSet(rs, filePath, [list EXCEPT ![Len(list)].name = line.name])
    ELSE rs

\* the ->name(...) rule of parseRouteLine: the last route of the file's list
\* is named when it is at most two lines away
nameLastRoute(rs, line, lineNumber, filePath) ==
    IF line.name # None /\ MapHas(rs, filePath)
    THEN LET list == MapGet(rs, filePath)
             lastRoute == list[Len(list)]
             d == lastRoute.line - lineNumber
         IN  IF (IF d < 0 THEN -d ELSE d) <= 2
             THEN MapSet(rs, filePath, [list EXCEPT ![Len(list)].name = line.name])
             ELSE rs
    ELSE rs

\* parseRouteLine: the four declaration shapes, then the ->name(...) rule
parseRouteLine(rs, line, lineNumber, filePath, groupMiddleware, groupPrefix) ==
    LET declared ==
            IF line.kind = "route" /\ line.shape \in {"string", "array"}
            THEN addRoute(rs, [method |-> <<ToUpperCase(line.verb)>>,
                               uri |-> fullUri(groupPrefix, line.uri),
                               controller |-> line.controller,
                               controllerMethod |-> line.controllerMethod,
                               middleware |-> groupMiddleware,
                               filePath |-> filePath,
                               line |-> lineNumber,
                               name |-> None])
            ELSE IF line.kind = "route" /\ line.shape = "resource"
            THEN addRoute(rs, [method |-> ResourceMethods,
                               uri |-> fullUri(groupPrefix, line.uri) \o <<Slash, "{id?}">>,
                               controller |-> line.controller,
                               controllerMethod |-> "resource",
                               middleware |-> groupMiddleware,
                               filePath |-> filePath,
                               line |-> lineNumber,
                               name |-> None])
            ELSE IF line.kind = "route" /\ line.shape = "closure"
            THEN addRoute(rs, [method |-> <<ToUpperCase(line.verb)>>,
                               uri |-> fullUri(groupPrefix, line.uri),
                               controller |-> <<>>,
                               controllerMethod |-> None,
                               middleware |-> groupMiddleware,
                               filePath |-> filePath,
                               line |-> lineNumber,
                               name |-> None])
            ELSE rs
    IN  nameLastRoute(declared, line, lineNumber, filePath)

\* A variant of the closing of a group that keeps the context at depth 0
closeGroupKeeping(ctx) == [ctx EXCEPT !.level = ctx.level - 1]

\* groupLevel--; if (groupLevel === 0) { currentMiddleware = [];
\* currentPrefix = ''; }
closeGroup(ctx) ==
    IF ctx.level - 1 = 0
    THEN [middleware |-> <<>>, prefix |-> <<>>, level |-> 0]
    ELSE [ctx EXCEPT !.level = ctx.level - 1]

\* The loop body of parseRouteFile over lines[i..]; ctx is the group context
\* (currentMiddleware, currentPrefix, groupLevel)
RECURSIVE parseLines(_, _, _, _, _)
parseLines(rs, lines, i, filePath, ctx) ==
    IF i > Len(lines) THEN rs
    ELSE LET line == lines[i]
             entered ==
                 IF line.kind = "group"
                 THEN LET g == parseRouteGroup(line, ctx.middleware, ctx.prefix)
                      IN  [middleware |-> g.middleware, prefix |-> g.prefix,
                           level |-> ctx.level + 1]
                 ELSE ctx
             left ==
                 IF line.kind = "close" /\ entered.level > 0
                 THEN closeGroup(entered)
                 ELSE entered
             parsed == parseRouteLine(rs, line, i, filePath, left.middleware, left.prefix)
         IN  \* a line that declares nothing leaves the routes as they are
             IF parsed = rs THEN parseLines(rs, lines, i + 1, filePath, left)
             ELSE parseLines(parsed, lines, i + 1, filePath, left)

\* A variant whose catch block drops what the files before have left
parseRouteFileLosing(rs, filePath, fs) ==
    tryParse(fs.files[filePath], EmptyMap,
             parseLines(rs, fs.files[filePath].content, 1, filePath,
                        [middleware |-> <<>>, prefix |-> <<>>, level |-> 0]))

parseRouteFile(rs, filePath, fs) ==
    tryParse(fs.files[filePath], rs,
             parseLines(rs, fs.files[filePath].content, 1, filePath,
                        [middleware |-> <<>>, prefix |-> <<>>, level |-> 0]))

\* The candidate keys of buildControllerRouteMap for one route
controllerKeys(route) ==
    <<[controller |-> route.controller, method |-> route.controllerMethod]>>
    \o (IF ~EndsWith(route.controller, <<Ctl>>)
        THEN <<[controller |-> route.controller \o <<Ctl>>,
                method |-> route.controllerMethod]>>
        ELSE <<>>)
    \o (IF EndsWith(route.controller, <<Ctl>>)
        THEN LET shortName == ReplaceFirst(route.controller, <<Ctl>>, <<>>)
             IN  <<[controller |-> shortName, method |-> route.controllerMethod],
                   [controller |-> shortName \o <<Ctl>>,
                    method |-> route.controllerMethod]>>
        ELSE <<>>)

RECURSIVE indexUnderKeys(_, _, _, _)
indexUnderKeys(cr, keys, i, route) ==
    IF i > Len(keys) THEN cr
    ELSE indexUnderKeys(
             MapSet(cr, keys[i],
                    IF MapHas(cr, keys[i])
                    THEN Append(MapGet(cr, keys[i]), route)
                    ELSE <<route>>),
             keys, i + 1, route)

\* getAllRoutes: the lists of this.routes, concatenated in Map order
RECURSIVE flatten(_, _)
flatten(rs, i) ==
    IF i > Len(rs) THEN <<>> ELSE rs[i].v \o flatten(rs, i + 1)

getAllRoutes(rs) == flatten(rs, 1)

RECURSIVE indexRoutes(_, _, _)
indexRoutes(cr, all, i) ==
    IF i > Len(all) THEN cr
    ELSE LET indexed ==
                 IF all[i].controller # <<>> /\ all[i].controllerMethod # None
                 THEN indexUnderKeys(cr, controllerKeys(all[i]), 1, all[i])
                 ELSE cr
         IN  \* a route without a controller leaves the Map as it is
             IF indexed = cr THEN indexRoutes(cr, all, i + 1)
             ELSE indexRoutes(indexed, all, i + 1)

buildControllerRouteMap(rs) == indexRoutes(EmptyMap, getAllRoutes(rs), 1)

\* parseAllRoutes, first half: the routes map after the files of the directory
\* have been parsed in directory order
RECURSIVE parseFiles(_, _, _)
parseFiles(rs, fs, i) ==
    IF i > Len(RouteFileNames) THEN rs
    ELSE parseFiles(
             IF fs.files[RouteFileNames[i]].exists
             THEN parseRouteFile(rs, RouteFileNames[i], fs)
             ELSE rs,
             fs, i + 1)

parsedRoutes(rs, fs) == IF ~fs.dir THEN clear(rs) ELSE parseFiles(clear(rs), fs, 1)

\* getRoutesForController: the candidate keys of a lookup, in order
possibleKeys(controllerName, methodName) ==
    <<[controller |-> controllerName, method |-> methodName],
      [controller |-> ReplaceFirst(controllerName, <<Ctl>>, <<>>), method |-> methodName],
      [controller |-> ReplaceFirst(controllerName, <<Ctl>>, <<>>) \o <<Ctl>>,
       method |-> methodName]>>
    \o (IF ~EndsWith(controllerName, <<Ctl>>)
        THEN <<[controller |-> controllerName \o <<Ctl>>, method |-> methodName]>>
        ELSE <<>>)

RECURSIVE firstNonEmpty(_, _, _)
firstNonEmpty(cr, keys, i) ==
    IF i > Len(keys) THEN <<>>
    ELSE IF MapHas(cr, keys[i]) /\ Len(MapGet(cr, keys[i])) > 0
         THEN MapGet(cr, keys[i])
         ELSE firstNonEmpty(cr, keys, i + 1)

getRoutesForController(cr, controllerName, methodName) ==
    firstNonEmpty(cr, possibleKeys(controllerName, methodName), 1)


(***************************************************************************)
(* LaravelIntelligentCompletionProvider: migration and model files         *)
(***************************************************************************)
\* ModelField; default None stands for undefined
Field(name, type, nullable, default) ==
    [name |-> name, type |-> type, nullable |-> nullable, default |-> default]

\* A column statement of a migration, as the first pattern of
\* parseMigrationFile captures it: $table->verb('name')modifiers; with
\* nullable = modifiers.includes('nullable()') and default the literal in
\* default(...), None when there is none
Column(verb, name, nullable, default) ==
    [verb |-> verb, name |-> name, nullable |-> nullable, default |-> default]

\* A migration file: the table of its Schema::create / Schema::table call,
\* its column statements in text order, and its zero-argument $table->m();
\* statements in text order (the second pattern)
Migration(table, columns, specials) ==
    [table |-> table, columns |-> columns, specials |-> specials]

StatusString == Column("string", "status", FALSE, None)
StatusNullable == Column("string", "status", TRUE, None)
TitleNullable == Column("string", "title", TRUE, None)
TitleInteger == Column("integer", "title", FALSE, "0")
CreatedAt == Column("dateTime", "created_at", FALSE, None)

ColumnLists ==
    {<<>>, <<StatusString>>, <<StatusNullable>>, <<TitleNullable>>, <<TitleInteger>>,
     <<CreatedAt>>, <<StatusString, TitleNullable>>}
SpecialLists == {<<>>, <<"timestamps">>}
TableNames == {"orders", "users"}

MigrationContents ==
    {Migration(t, c, sp) : t \in TableNames, c \in ColumnLists, sp \in SpecialLists}

\* Migration file names are 1..MaxMigrations, standing for names whose
\* lexical order is the numeric one (2024_01_01_..., 2024_01_02_...)
MigrationFileNames == 1..MaxMigrations

\* A model class file app/Models/<name>.php: whether it passes the isModel
\* test, its $table ("" : none), the quoted names in $fillable and $hidden, and
\* the 'field' => 'cast' pairs of $casts
ModelFile(isModel, table, fillable, hidden, casts) ==
    [isModel |-> isModel, table |-> table, fillable |-> fillable,
     hidden |-> hidden, casts |-> casts]

Cast(field, cast) == [field |-> field, cast |-> cast]

ModelName == "Order"

FillableLists == {<<>>, <<"title">>, <<"status", "title">>, <<"title", "title">>}
HiddenLists == {<<>>, <<"title">>, <<"secret">>, <<"id">>}
CastLists == {<<>>, <<Cast("title", "integer")>>, <<Cast("flag", "bool")>>,
              <<Cast("title", "integer"), Cast("status", "datetime")>>}

ModelContents ==
    {ModelFile(TRUE, t, f, h, c) :
        t \in {"", "users"}, f \in FillableLists, h \in HiddenLists, c \in CastLists}
    \cup {ModelFile(FALSE, "", <<"title">>, <<>>, <<>>)}

(***************************************************************************)
(* LaravelIntelligentCompletionProvider: parsing                           *)
(***************************************************************************)
migrationTypeToType(migrationColumnType) ==
    CASE migrationColumnType \in {"id", "bigIncrements", "increments", "integer",
                                  "bigInteger", "smallInteger", "tinyInteger",
                                  "unsignedInteger", "unsignedBigInteger"} -> "integer"
      [] migrationColumnType \in {"string", "text", "mediumText", "longText", "char",
                                  "enum", "uuid"} -> "string"
      [] migrationColumnType = "boolean" -> "boolean"
      [] migrationColumnType = "date" -> "date"
      [] migrationColumnType = "dateTime" -> "datetime"
      [] migrationColumnType = "time" -> "time"
      [] migrationColumnType \in {"timestamp", "timestamps"} -> "timestamp"
      [] migrationColumnType = "decimal" -> "decimal"
      [] migrationColumnType \in {"double", "float"} -> "float"
      [] migrationColumnType \in {"json", "jsonb"} -> "json"
      [] migrationColumnType = "binary" -> "binary"
      [] OTHER -> "string"

castToType(cast) ==
    CASE cast \in {"integer", "int"} -> "integer"
      [] cast \in {"real", "float", "double"} -> "float"
      [] cast = "decimal" -> "decimal"
      [] cast = "string" -> "string"
      [] cast \in {"boolean", "bool"} -> "boolean"
      [] cast = "object" -> "object"
      [] cast = "array" -> "array"
      [] cast = "collection" -> "collection"
      [] cast = "date" -> "date"
      [] cast = "datetime" -> "datetime"
      [] cast = "timestamp" -> "timestamp"
      [] OTHER -> "string"

\* fields.find(f => f.name === name): its index, 0 when there is none
fieldIndex(fields, name) == LET Named(f) == f.name = name IN FindIndex(fields, Named)

\* if (!fields.find(f => f.name === name)) fields.push({name, type, nullable})
pushIfMissing(fields, name, type, nullable) ==
    IF fieldIndex(fields, name) = 0
    THEN Append(fields, Field(name, type, nullable, None))
    ELSE fields

handleSpecialMigrationMethods(method, fields) ==
    CASE method = "timestamps" ->
             pushIfMissing(pushIfMissing(fields, "created_at", "timestamp", TRUE),
                           "updated_at", "timestamp", TRUE)
      [] method = "softDeletes" -> pushIfMissing(fields, "deleted_at", "timestamp", TRUE)
      [] method = "rememberToken" -> pushIfMissing(fields, "remember_token", "string", TRUE)
      [] OTHER -> fields

\* The matches of the first column pattern: update the field of that name in
\* place, or push a new one
RECURSIVE addColumns(_, _, _)
addColumns(fields, columns, i) ==
    IF i > Len(columns) THEN fields
    ELSE LET c == columns[i]
             field == Field(c.name, migrationTypeToType(c.verb), c.nullable, c.default)
             existingIndex == fieldIndex(fields, c.name)
         IN  addColumns(IF existingIndex > 0
                        THEN [fields EXCEPT ![existingIndex] = field]
                        ELSE Append(fields, field),
                        columns, i + 1)

\* The matches of the second pattern
RECURSIVE addSpecials(_, _, _)
addSpecials(fields, specials, i) ==
    IF i > Len(specials) THEN fields
    ELSE addSpecials(handleSpecialMigrationMethods(specials[i], fields), specials, i + 1)

\* parseMigrationFile: all matches of the first pattern, then all matches of
\* the second
parseMigrationFile(migs, file) ==
    LET fields == IF MapHas(migs, file.table) THEN MapGet(migs, file.table) ELSE <<>>
    IN  MapSet(migs, file.table,
               addSpecials(addColumns(fields, file.columns, 1), file.specials, 1))

\* Array.prototype.sort() on file names: insertion sort of the listing
RECURSIVE insertSorted(_, _)
insertSorted(sorted, x) ==
    IF sorted = <<>> THEN <<x>>
    ELSE IF x < Head(sorted) THEN <<x>> \o sorted
         ELSE <<Head(sorted)>> \o insertSorted(Tail(sorted), x)

RECURSIVE sort(_)
sort(names) ==
    IF names = <<>> THEN <<>>
    ELSE insertSorted(sort(SubSeq(names, 1, Len(names) - 1)), names[Len(names)])

\* fs.readdirSync(migrationsPath): the names of the files that exist, in the
\* order the directory lists them
RECURSIVE existing(_, _, _)
existing(listing, files, i) ==
    IF i > Len(listing) THEN <<>>
    ELSE (IF files[listing[i]].exists THEN <<listing[i]>> ELSE <<>>)
         \o existing(listing, files, i + 1)

\* A variant that parses the files in directory order
migrationFilesUnsorted(fs) == existing(fs.listing, fs.migrations, 1)

migrationFiles(fs) == sort(existing(fs.listing, fs.migrations, 1))

RECURSIVE parseMigrations(_, _, _, _)
parseMigrations(migs, names, files, i) ==
    IF i > Len(names) THEN migs
    ELSE parseMigrations(tryParse(files[names[i]], migs,
                                  parseMigrationFile(migs, files[names[i]].content)),
                         names, files, i + 1)

\* analyzeMigrations: clear, then every migration file in sorted order
analyzedMigrations(fs) ==
    parseMigrations(EmptyMap, migrationFiles(fs), fs.migrations, 1)

\* extractTableName's fallback: the model name in snake case with 's' appended
snakePlural(modelName) ==
    CASE modelName = "Order" -> "orders"
      [] modelName = "User" -> "users"
      [] OTHER -> "s"

extractTableName(file, modelName) ==
    IF file.table # "" THEN file.table ELSE snakePlural(modelName)

\* $fillable: one string, non-null field per quoted name
RECURSIVE addFillable(_, _, _)
addFillable(fields, names, i) ==
    IF i > Len(names) THEN fields
    ELSE addFillable(Append(fields, Field(names[i], "string", FALSE, None)), names, i + 1)

\* $hidden: a string, non-null field unless one of that name exists
RECURSIVE addHidden(_, _, _)
addHidden(fields, names, i) ==
    IF i > Len(names) THEN fields
    ELSE addHidden(IF fieldIndex(fields, names[i]) = 0
                   THEN Append(fields, Field(names[i], "string", FALSE, None))
                   ELSE fields,
                   names, i + 1)

\* $casts: the cast's type on the existing field, or a new non-null field
RECURSIVE addCasts(_, _, _)
addCasts(fields, casts, i) ==
    IF i > Len(casts) THEN fields
    ELSE LET existingIndex == fieldIndex(fields, casts[i].field)
         IN  addCasts(IF existingIndex > 0
                      THEN [fields EXCEPT ![existingIndex].type = castToType(casts[i].cast)]
                      ELSE Append(fields, Field(casts[i].field, castToType(casts[i].cast),
                                                FALSE, None)),
                      casts, i + 1)

\* Merge with migration data: type, nullable and default of the migration
\* field on the existing field, or the migration field itself
\* A variant that leaves a field the model file already gave as it is
RECURSIVE mergeMigrationFieldsKeepExisting(_, _, _)
mergeMigrationFieldsKeepExisting(fields, migrationFields, i) ==
    IF i > Len(migrationFields) THEN fields
    ELSE LET m == migrationFields[i]
         IN  mergeMigrationFieldsKeepExisting(
                 IF fieldIndex(fields, m.name) > 0 THEN fields ELSE Append(fields, m),
                 migrationFields, i + 1)

RECURSIVE mergeMigrationFields(_, _, _)
mergeMigrationFields(fields, migrationFields, i) ==
    IF i > Len(migrationFields) THEN fields
    ELSE LET m == migrationFields[i]
             existingIndex == fieldIndex(fields, m.name)
         IN  mergeMigrationFields(
                 IF existingIndex > 0
                 THEN [fields EXCEPT ![existingIndex] =
                          Field(@.name, m.type, m.nullable, m.default)]
                 ELSE Append(fields, m),
                 migrationFields, i + 1)

\* A variant that puts the three default definitions in the place of fields
\* of those names
addDefaultFieldsReplacing(fields) ==
    LET put(fs, name, type) ==
            IF fieldIndex(fs, name) = 0 THEN Append(fs, Field(name, type, FALSE, None))
            ELSE [fs EXCEPT ![fieldIndex(fs, name)] = Field(name, type, FALSE, None)]
    IN  put(put(put(fields, "id", "integer"), "created_at", "datetime"),
            "updated_at", "datetime")

\* defaultFields.forEach: id, created_at, updated_at, each pushed when no field
\* has the name
addDefaultFields(fields) ==
    pushIfMissing(pushIfMissing(pushIfMissing(fields, "id", "integer", FALSE),
                                "created_at", "datetime", FALSE),
                  "updated_at", "datetime", FALSE)

\* parseModelFile: the fields of the class, merged with this.migrations as it
\* is when the file is parsed
parseModelFile(ms, migs, modelName, file) ==
    IF ~file.isModel THEN ms
    ELSE LET table == extractTableName(file, modelName)
             declared == addCasts(addHidden(addFillable(<<>>, file.fillable, 1),
                                            file.hidden, 1),
                                  file.casts, 1)
             merged == IF MapHas(migs, table)
                       THEN mergeMigrationFields(declared, MapGet(migs, table), 1)
                       ELSE declared
         IN  MapSet(ms, modelName,
                    [name |-> modelName, table |-> table,
                     fields |-> addDefaultFields(merged)])

\* scanModelDirectory over one of the two model paths
scanModelDirectory(ms, migs, fs) ==
    IF fs.model.exists
    THEN tryParse(fs.model, ms, parseModelFile(ms, migs, ModelName, fs.model.content))
    ELSE ms

\* analyzeModels: clear, then app/Models, then app (which holds app/Models)
analyzedModels(migs, fs) ==
    scanModelDirectory(scanModelDirectory(EmptyMap, migs, fs), migs, fs)


(***************************************************************************)
(* Text the code inspects character by character                           *)
(***************************************************************************)
\* A line of text is a sequence of symbols: the characters the patterns of
\* the code tell apart, and words (runs of other characters) as single symbols
Quote == "'"
LBracket == "["
RBracket == "]"
Comma == ","
Pipe == "|"
Colon == ":"
Space == " "
Arrow == "=>"
Hash == "#"
Equals == "="

\* String.prototype.includes, indexOf, lastIndexOf for one symbol (0: none)
includes(text, ch) == \E i \in 1..Len(text) : text[i] = ch
indexOf(text, ch) == FindIndex(text, LAMBDA c : c = ch)
lastIndexOf(text, ch) ==
    IF includes(text, ch)
    THEN CHOOSE i \in 1..Len(text) :
             text[i] = ch /\ \A j \in (i + 1)..Len(text) : text[j] # ch
    ELSE 0

\* text.substring from symbol i on
From(text, i) == SubSeq(text, i, Len(text))

\* String.prototype.split on one symbol
RECURSIVE split(_, _)
split(text, sep) ==
    LET i == indexOf(text, sep)
    IN  IF i = 0 THEN <<text>>
        ELSE <<SubSeq(text, 1, i - 1)>> \o split(From(text, i + 1), sep)

\* String.prototype.trim
RECURSIVE trim(_)
trim(text) ==
    IF text = <<>> THEN text
    ELSE IF Head(text) = Space THEN trim(Tail(text))
    ELSE IF text[Len(text)] = Space THEN trim(SubSeq(text, 1, Len(text) - 1))
    ELSE text

\* rule.replace(/['"`]/g, '')
removeQuotes(text) == SelectSeq(text, LAMBDA c : c # Quote)

\* the position of the last symbol at or before j that is not a space
RECURSIVE skipSpacesBack(_, _)
skipSpacesBack(text, j) ==
    IF j >= 1 /\ text[j] = Space THEN skipSpacesBack(text, j - 1) ELSE j

\* a Set in insertion order: Set.prototype.add
SetAdd(set, x) == IF x \in Range(set) THEN set ELSE Append(set, x)

RECURSIVE SetAddAll(_, _, _)
SetAddAll(set, xs, i) ==
    IF i > Len(xs) THEN set ELSE SetAddAll(SetAdd(set, xs[i]), xs, i + 1)


(***************************************************************************)
(* LaravelValidationCompletionProvider: the rule registry                  *)
(***************************************************************************)
\* initializeValidationRules: the names of the catalog, in its order
validationRules ==
    <<"required", "nullable", "string", "integer", "numeric", "boolean", "email", "min",
      "max", "confirmed", "unique", "exists", "in", "regex", "date", "file", "image">>

\* the table mutuallyExclusive of isRuleApplicable
mutuallyExclusive(ruleName) ==
    CASE ruleName = <<"required">> -> {"nullable", "sometimes"}
      [] ruleName = <<"nullable">> -> {"required"}
      [] ruleName = <<"string">> -> {"numeric", "integer", "boolean", "array", "file", "image"}
      [] ruleName = <<"numeric">> -> {"string", "boolean", "array", "file", "image"}
      [] ruleName = <<"integer">> ->
             {"string", "boolean", "array", "file", "image", "decimal"}
      [] ruleName = <<"boolean">> ->
             {"string", "numeric", "integer", "array", "file", "image"}
      [] ruleName = <<"array">> ->
             {"string", "numeric", "integer", "boolean", "file", "image"}
      [] ruleName = <<"file">> -> {"string", "numeric", "integer", "boolean", "array"}
      [] ruleName = <<"image">> -> {"string", "numeric", "integer", "boolean", "array"}
      [] OTHER -> {}

\* A variant that looks only at the conflicts the table lists for the rule
isRuleApplicableOneWay(rule, currentRules) ==
    ~\E i \in 1..Len(currentRules) :
        \E conflict \in mutuallyExclusive(<<rule>>) : currentRules[i] = <<conflict>>

\* isRuleApplicable(rule, currentRules, fieldName); fieldName is not read.
\* currentRules are strings: sequences of symbols
isRuleApplicable(rule, currentRules) ==
    /\ ~\E i \in 1..Len(currentRules) :
           \E conflict \in mutuallyExclusive(<<rule>>) : currentRules[i] = <<conflict>>
    /\ ~\E i \in 1..Len(currentRules) : rule \in mutuallyExclusive(currentRules[i])

\* rule.split(':')[0] of each piece, the empty ones dropped
RECURSIVE ruleNames(_, _, _)
ruleNames(pieces, isArrayContext, i) ==
    IF i > Len(pieces) THEN <<>>
    ELSE LET trimmed == trim(pieces[i])
             name == split(IF isArrayContext THEN removeQuotes(trimmed) ELSE trimmed,
                           Colon)[1]
         IN  (IF Len(name) > 0 THEN <<name>> ELSE <<>>)
             \o ruleNames(pieces, isArrayContext, i + 1)

extractCurrentRules(beforeCursor, isArrayContext) ==
    IF isArrayContext
    THEN \* beforeCursor.match(/\[(.*?)$/): from the first '[' on
         ruleNames(split(From(beforeCursor, indexOf(beforeCursor, LBracket) + 1), Comma),
                   TRUE, 1)
    ELSE \* beforeCursor.match(/['"`]([^'"`]+)$/): from the last quote on, not empty
         LET q == lastIndexOf(beforeCursor, Quote)
         IN  IF q = 0 \/ q = Len(beforeCursor) THEN <<>>
             ELSE ruleNames(split(From(beforeCursor, q + 1), Pipe), FALSE, 1)

provideValidationRuleCompletions(beforeCursor) ==
    LET isArrayContext ==
            includes(beforeCursor, LBracket) /\ ~includes(beforeCursor, RBracket)
        currentRules == extractCurrentRules(beforeCursor, isArrayContext)
    IN  SelectSeq(validationRules,
                  LAMBDA rule : /\ ~\E i \in 1..Len(currentRules) : currentRules[i] = <<rule>>
                                /\ isRuleApplicable(rule, currentRules))

\* the foreign-key suffix of a field name, one piece of the name
IdSuffix == "_id"

\* String.prototype.replace with a string pattern: the first occurrence only
replaceFirst(text, pattern, by) ==
    LET i == indexOf(text, pattern)
    IN  IF i = 0 THEN text ELSE SubSeq(text, 1, i - 1) \o <<by>> \o From(text, i + 1)

\* text.endsWith(suffix) for a suffix of one symbol
endsWith(text, suffix) == Len(text) > 0 /\ text[Len(text)] = suffix

\* getParameterPlaceholder(param, fieldName, index) for the parameter 'table'
\* of unique and exists, which has no examples: the default the placeholder
\* ${index:default} holds. 'users' is written as the stem 'user' and 's'
getParameterPlaceholder(fieldName) ==
    IF fieldName # <<>>
    THEN IF endsWith(fieldName, IdSuffix)
         THEN replaceFirst(fieldName, IdSuffix, "s")
         ELSE <<"user", "s">>
    ELSE <<"table_name_or_model">>

\* text[1..j] ends with /['"`][^'"`]*['"`]\s*=>\s*/
fieldArrowBefore(text, j) ==
    LET a == skipSpacesBack(text, j)
        b == skipSpacesBack(text, a - 1)
    IN  /\ a >= 1 /\ text[a] = Arrow
        /\ b >= 1 /\ text[b] = Quote
        /\ \E c \in 1..(b - 1) : text[c] = Quote

\* The six patterns of isInValidationContext: the third, fourth and fifth
\* end as the first does and the sixth as the second, so a text matches one
\* of the six exactly when it matches the first or the second
isInValidationContext(beforeCursor) ==
    LET q == lastIndexOf(beforeCursor, Quote)
    IN  /\ q > 0
        /\ \/ fieldArrowBefore(beforeCursor, q - 1)
           \/ \E b \in 1..(q - 1) :
                 /\ beforeCursor[b] = LBracket
                 /\ \A k \in (b + 1)..(q - 1) : beforeCursor[k] # RBracket
                 /\ fieldArrowBefore(beforeCursor, b - 1)

provideCompletionItems(beforeCursor) ==
    IF isInValidationContext(beforeCursor)
    THEN provideValidationRuleCompletions(beforeCursor)
    ELSE <<>>

\* The line of a PHP document the cursor is on: what stands before the field,
\* the field, the rules already written for it in one 'a|b' string ("pipe") or
\* in an array ['a', 'b'] ("array"), and the letters typed of the next rule
DocumentLine(before, field, context, rules, typed) ==
    [before |-> before, field |-> field, context |-> context, rules |-> rules,
     typed |-> typed]

RECURSIVE writePipe(_, _)
writePipe(rules, i) ==
    IF i > Len(rules) THEN <<>> ELSE rules[i] \o <<Pipe>> \o writePipe(rules, i + 1)

RECURSIVE writeArray(_, _)
writeArray(rules, i) ==
    IF i > Len(rules) THEN <<>>
    ELSE <<Quote>> \o rules[i] \o <<Quote, Comma, Space>> \o writeArray(rules, i + 1)

\* lineText.substring(0, position.character) with the cursor at the end
BeforeCursor(line) ==
    line.before \o <<Quote, line.field, Quote, Space, Arrow, Space>>
    \o (IF line.context = "pipe"
        THEN <<Quote>> \o writePipe(line.rules, 1)
        ELSE <<LBracket>> \o writeArray(line.rules, 1) \o <<Quote>>)
    \o line.typed

\* The rules applied to the field of the line, parameters dropped
AppliedRules(line) == {line.rules[i][1] : i \in 1..Len(line.rules)}

MaxRules == 2   \* rules already written for the field

\* The field names a table is suggested for: up to MaxFieldWords of these
\* pieces, as in user_id, user_parent_id, user_id_parent_id
MaxFieldWords == 4
FieldWords == {"user", "_parent", IdSuffix}
TableFieldNames == SeqsUpTo(FieldWords, MaxFieldWords)

\* before the field: the indentation of a line of its own; the call that
\* opens the rules array on the same line; an earlier field with its rules
Indent == <<Space, Space>>
CallOpen == <<"$request->validate(", LBracket>>
EarlierField ==
    <<Quote, "name", Quote, Space, Arrow, Space, LBracket, Quote, "string", Quote,
      RBracket, Comma, Space>>

WrittenRules == {<<"required">>, <<"nullable">>, <<"max", Colon, "255">>}

DocumentLines ==
    {DocumentLine(before, "email", context, rules, typed) :
        before \in {Indent, CallOpen, EarlierField},
        context \in {"pipe", "array"},
        rules \in SeqsUpTo(WrittenRules, MaxRules),
        typed \in {<<>>, <<"nu">>}}

\* the rule names isRuleApplicable is asked about: the catalog and the table
RuleNames == Range(validationRules) \cup {"sometimes", "array", "decimal"}

(***************************************************************************)
(* ValidationDiagnosticsProvider and ValidationCodeActionProvider          *)
(***************************************************************************)
\* ruleDefinition.parameters.filter(p => p.required).length of the rules of
\* the catalog that have parameters; the others are not checked
requiredParameters(ruleName) ==
    IF ruleName \in {"min", "max", "unique", "exists", "in", "regex"} THEN 1 ELSE 0

\* getValidationRule(name) finds a rule: name is a string, a sequence of symbols
getValidationRule(name) == Len(name) = 1 /\ name[1] \in Range(validationRules)

\* knownRules.includes(rule.split(':')[0])
isValidationRule(rule) == getValidationRule(split(rule, Colon)[1])

\* /['"`]([^'"`]+)['"`]/ from symbol from on: the positions of the two quotes
\* of the first quoted text that is not empty, start 0 when there is none
RECURSIVE quotedFrom(_, _)
quotedFrom(line, from) ==
    LET i == FindFrom(line, LAMBDA c : c = Quote, from)
        j == IF i = 0 THEN 0 ELSE FindFrom(line, LAMBDA c : c = Quote, i + 1)
    IN  IF i = 0 \/ j = 0 THEN [start |-> 0, end |-> 0]
        ELSE IF j > i + 1 THEN [start |-> i, end |-> j]
        ELSE quotedFrom(line, j)

\* line.indexOf(text), counted from 0; -1 when the line does not hold it
RECURSIVE indexOfText(_, _, _)
indexOfText(line, text, i) ==
    IF i + Len(text) - 1 > Len(line) THEN -1
    ELSE IF SubSeq(line, i, i + Len(text) - 1) = text THEN i - 1
    ELSE indexOfText(line, text, i + 1)

\* rulesList.forEach: each rule trimmed, with the columns it is taken to be at
RECURSIVE positioned(_, _, _)
positioned(rulesList, currentPos, k) ==
    IF k > Len(rulesList) THEN <<>>
    ELSE <<[rule |-> trim(rulesList[k]),
            range |-> [start |-> currentPos, end |-> currentPos + Len(rulesList[k])]]>>
         \o positioned(rulesList, currentPos + Len(rulesList[k]) + 1, k + 1)

\* the first quoted text of the line, when it holds a '|'
pipeRules(line) ==
    LET m == quotedFrom(line, 1)
        rulesString == SubSeq(line, m.start + 1, m.end - 1)
    IN  IF m.start = 0 \/ ~includes(rulesString, Pipe) THEN <<>>
        ELSE positioned(split(rulesString, Pipe), indexOfText(line, rulesString, 1), 1)

\* line.matchAll: every quoted text of the line that isValidationRule accepts
RECURSIVE arrayRules(_, _)
arrayRules(line, from) ==
    LET m == quotedFrom(line, from)
        rule == SubSeq(line, m.start + 1, m.end - 1)
    IN  IF m.start = 0 THEN <<>>
        ELSE (IF isValidationRule(rule)
              THEN <<[rule |-> rule, range |-> [start |-> m.start - 1, end |-> m.end]]>>
              ELSE <<>>)
             \o arrayRules(line, m.end + 1)

extractValidationRulesFromLine(line) == pipeRules(line) \o arrayRules(line, 1)

\* An issue of validateRule: its code and what its message names
Issue(code, subject) == [code |-> code, subject |-> subject]

\* tables.has(tableName) for a name that is a sequence of symbols
hasTable(tables, tableName) == Len(tableName) = 1 /\ MapHas(tables, tableName[1])

validateRule(rule, tables) ==
    LET parts == split(rule, Colon)
        ruleName == parts[1]
        params == Tail(parts)
        providedParams == IF Len(params) > 0 THEN Len(split(params[1], Comma)) ELSE 0
    IN  IF ~getValidationRule(ruleName) THEN <<Issue("unknown-rule", ruleName)>>
        ELSE (IF providedParams < requiredParameters(ruleName[1])
              THEN <<Issue("missing-parameters", ruleName)>>
              ELSE <<>>)
             \o (IF /\ ruleName[1] \in {"exists", "unique"}
                    /\ Len(params) > 0
                    /\ ~hasTable(tables, split(params[1], Comma)[1])
                 THEN <<Issue("table-not-found", split(params[1], Comma)[1])>>
                 ELSE <<>>)

\* new vscode.Diagnostic(new vscode.Range(lineIndex, start, lineIndex, end), ...)
ValidationDiagnostic(lineIndex, range, issue) ==
    [line |-> lineIndex, range |-> range, code |-> issue.code, subject |-> issue.subject]

RECURSIVE issuesOf(_, _, _, _, _)
issuesOf(rules, tables, lineIndex, r, acc) ==
    IF r > Len(rules) THEN acc
    ELSE LET issues == validateRule(rules[r].rule, tables)
         IN  issuesOf(rules, tables, lineIndex, r + 1,
                      acc \o [n \in 1..Len(issues) |->
                                 ValidationDiagnostic(lineIndex, rules[r].range, issues[n])])

\* ValidationDiagnosticsProvider.updateDiagnostics(document): the diagnostics
\* it sets for the document, lines counted from 0
RECURSIVE updateValidationDiagnostics(_, _, _)
updateValidationDiagnostics(lines, tables, i) ==
    IF i > Len(lines) THEN <<>>
    ELSE issuesOf(extractValidationRulesFromLine(lines[i]), tables, i - 1, 1, <<>>)
         \o updateValidationDiagnostics(lines, tables, i + 1)

\* currentText.replace(/exists:[^,)]+/, `exists:${tableName}`)
RECURSIVE untilComma(_, _)
untilComma(text, i) ==
    IF i > Len(text) \/ text[i] = Comma THEN i ELSE untilComma(text, i + 1)

RECURSIVE replaceExists(_, _, _)
replaceExists(text, tableName, i) ==
    IF i + 2 > Len(text) THEN text
    ELSE IF text[i] = "exists" /\ text[i + 1] = Colon /\ text[i + 2] # Comma
         THEN SubSeq(text, 1, i - 1) \o <<"exists", Colon, tableName>>
              \o From(text, untilComma(text, i + 2))
         ELSE replaceExists(text, tableName, i + 1)

MaxSuggestedTables == 5

\* createTableNotFoundActions(document, diagnostic): one quick fix per table
\* of the first five, with the text it puts in the place of the range
createTableNotFoundActions(lines, diagnostic, tables) ==
    LET availableTables ==
            SubSeq(tables, 1, IF Len(tables) < MaxSuggestedTables THEN Len(tables)
                              ELSE MaxSuggestedTables)
        currentText ==
            SubSeq(lines[diagnostic.line + 1], diagnostic.range.start + 1,
                   diagnostic.range.end)
    IN  [n \in 1..Len(availableTables) |->
            [table |-> availableTables[n].k,
             newText |-> replaceExists(currentText, availableTables[n].k, 1)]]

\* A line of a validated PHP document: a rule written after 'required' in a
\* 'field' => 'a|b' string ("pipe") or array ("array"), as a quoted string on
\* a line of its own ("alone"), or in an 'a|b' string without a field ("string")
RuleLine(form, field, rule) == [form |-> form, field |-> field, rule |-> rule]

LineText(l) ==
    CASE l.form = "pipe" ->
             <<Space, Quote, l.field, Quote, Space, Arrow, Space, Quote, "required", Pipe>>
             \o l.rule \o <<Quote, Comma>>
      [] l.form = "array" ->
             <<Space, Quote, l.field, Quote, Space, Arrow, Space, LBracket, Quote,
               "required", Quote, Comma, Space, Quote>> \o l.rule \o <<Quote, RBracket, Comma>>
      [] l.form = "alone" -> <<Space, Quote>> \o l.rule \o <<Quote, Comma>>
      [] OTHER -> <<Space, Quote, "required", Pipe>> \o l.rule \o <<Quote, Comma>>

DocumentText(document) == [i \in 1..Len(document) |-> LineText(document[i])]

MaxDocumentLines == 2

WrittenRuleTexts ==
    {<<"exists", Colon, "orders">>, <<"exists", Colon, "users", Comma, "id">>,
     <<"unique", Colon, "orders">>, <<"strng">>, <<"max">>}

RuleLines ==
    {RuleLine(form, "title", rule) :
        form \in {"pipe", "array", "alone", "string"}, rule \in WrittenRuleTexts}

ValidatedDocuments == SeqsUpTo(RuleLines, MaxDocumentLines) \ {<<>>}

(***************************************************************************)
(* ConfigCompletionProvider: config keys and env keys                      *)
(***************************************************************************)
\* A dotted name is the sequence of its parts: 'mail.from.address' is
\* <<"mail", "from", "address">>, so key.includes('.') is Len(key) > 1 and
\* `${configName}.${key}` is <<configName>> \o key.
ConfigFileNames == <<"app.php", "mail.php", "notes.txt">>

\* file.endsWith('.php') and path.basename(file, '.php') for these names
endsWithPhp(file) == file \in {"app.php", "mail.php"}
basename(file) ==
    CASE file = "app.php" -> "app"
      [] file = "mail.php" -> "mail"
      [] OTHER -> file
EnvFileNames == <<".env", ".env.example", ".env.local">>

\* the table commonKeys of addCommonConfigKeys
commonKeys(configName) ==
    CASE configName = "app" ->
             << <<"name">>, <<"env">>, <<"debug">>, <<"url">>, <<"timezone">>, <<"locale">>,
                <<"fallback_locale">>, <<"faker_locale">>, <<"key">>, <<"cipher">>,
                <<"providers">>, <<"aliases">> >>
      [] configName = "database" ->
             << <<"default">>, <<"connections">>, <<"migrations">>, <<"redis">> >>
      [] configName = "cache" -> << <<"default">>, <<"stores">>, <<"prefix">> >>
      [] configName = "mail" ->
             << <<"default">>, <<"mailers">>, <<"from", "address">>, <<"from", "name">> >>
      [] configName = "session" ->
             << <<"driver">>, <<"lifetime">>, <<"expire_on_close">>, <<"encrypt">>,
                <<"files">>, <<"connection">>, <<"table">>, <<"store">>, <<"lottery">>,
                <<"cookie">>, <<"path">>, <<"domain">>, <<"secure">>, <<"http_only">>,
                <<"same_site">> >>
      [] configName = "queue" -> << <<"default">>, <<"connections">>, <<"failed">> >>
      [] configName = "auth" ->
             << <<"defaults">>, <<"guards">>, <<"providers">>, <<"passwords">> >>
      [] configName = "services" -> << <<"mailgun">>, <<"postmark">>, <<"ses">> >>
      [] OTHER -> <<>>

\* the keys of the table are added in its order; those the Set has stay
\* where they are
addCommonConfigKeys(keys, configName) ==
    keys \o SelectSeq([i \in 1..Len(commonKeys(configName)) |->
                          <<configName>> \o commonKeys(configName)[i]],
                      LAMBDA key : key \notin Range(keys))

\* partial += `.${part}` for each part of a dotted key
RECURSIVE addPartials(_, _, _, _)
addPartials(keys, configName, key, j) ==
    IF j > Len(key) THEN keys
    ELSE addPartials(SetAdd(keys, <<configName>> \o SubSeq(key, 1, j)), configName, key,
                     j + 1)

\* the while loop of parseConfigFile over the matches of keyPattern
RECURSIVE addConfigKeys(_, _, _, _)
addConfigKeys(keys, configName, content, i) ==
    IF i > Len(content) THEN keys
    ELSE LET key == content[i]
             added == SetAdd(keys, <<configName>> \o key)
         IN  addConfigKeys(IF Len(key) > 1 THEN addPartials(added, configName, key, 1)
                           ELSE added,
                           configName, content, i + 1)

parseConfigFile(keys, content, configName) ==
    addCommonConfigKeys(addConfigKeys(keys, configName, content, 1), configName)

RECURSIVE parseConfigFiles(_, _, _)
parseConfigFiles(keys, fs, i) ==
    IF i > Len(ConfigFileNames) THEN keys
    ELSE LET file == ConfigFileNames[i]
         IN  parseConfigFiles(
                 IF fs.files[file].exists /\ endsWithPhp(file)
                 THEN tryParse(fs.files[file], keys,
                               parseConfigFile(keys, fs.files[file].content, basename(file)))
                 ELSE keys,
                 fs, i + 1)

\* loadConfigKeys: what it leaves in this.configKeys
loadedConfigKeys(keys, fs) ==
    IF ~fs.dir THEN clear(keys) ELSE parseConfigFiles(clear(keys), fs, 1)

\* the list commonEnvKeys of addCommonEnvKeys
commonEnvKeys ==
    <<"APP_NAME", "APP_ENV", "APP_KEY", "APP_DEBUG", "APP_URL",
      "LOG_CHANNEL", "LOG_DEPRECATIONS_CHANNEL", "LOG_LEVEL",
      "DB_CONNECTION", "DB_HOST", "DB_PORT", "DB_DATABASE", "DB_USERNAME", "DB_PASSWORD",
      "BROADCAST_DRIVER", "CACHE_DRIVER", "FILESYSTEM_DISK", "QUEUE_CONNECTION",
      "SESSION_DRIVER", "SESSION_LIFETIME",
      "MEMCACHED_HOST", "REDIS_HOST", "REDIS_PASSWORD", "REDIS_PORT",
      "MAIL_MAILER", "MAIL_HOST", "MAIL_PORT", "MAIL_USERNAME", "MAIL_PASSWORD",
      "MAIL_ENCRYPTION", "MAIL_FROM_ADDRESS", "MAIL_FROM_NAME",
      "AWS_ACCESS_KEY_ID", "AWS_SECRET_ACCESS_KEY", "AWS_DEFAULT_REGION", "AWS_BUCKET",
      "PUSHER_APP_ID", "PUSHER_APP_KEY", "PUSHER_APP_SECRET", "PUSHER_HOST",
      "PUSHER_PORT", "PUSHER_SCHEME", "PUSHER_APP_CLUSTER",
      "VITE_PUSHER_APP_KEY", "VITE_PUSHER_HOST", "VITE_PUSHER_PORT",
      "VITE_PUSHER_SCHEME", "VITE_PUSHER_APP_CLUSTER">>

\* the keys of the list are added in its order; those the Set has stay
\* where they are
addCommonEnvKeys(keys) ==
    keys \o SelectSeq([i \in 1..Len(commonEnvKeys) |-> <<commonEnvKeys[i]>>],
                      LAMBDA key : key \notin Range(keys))

\* parseEnvFile: the key of every line that is not a comment and has '='
\* after its first symbol
RECURSIVE parseEnvFile(_, _, _)
parseEnvFile(keys, lines, i) ==
    IF i > Len(lines) THEN keys
    ELSE LET trimmedLine == trim(lines[i])
             equalIndex == indexOf(trimmedLine, Equals)
         IN  parseEnvFile(
                 IF trimmedLine # <<>> /\ Head(trimmedLine) # Hash /\ equalIndex > 1
                 THEN SetAdd(keys, trim(SubSeq(trimmedLine, 1, equalIndex - 1)))
                 ELSE keys,
                 lines, i + 1)

RECURSIVE parseEnvFiles(_, _, _)
parseEnvFiles(keys, fs, i) ==
    IF i > Len(EnvFileNames) THEN keys
    ELSE parseEnvFiles(IF fs.env[EnvFileNames[i]].exists
                       THEN tryParse(fs.env[EnvFileNames[i]], keys,
                                     parseEnvFile(keys, fs.env[EnvFileNames[i]].content, 1))
                       ELSE keys,
                       fs, i + 1)

\* loadEnvKeys: what it leaves in this.envKeys
loadedEnvKeys(keys, fs) == addCommonEnvKeys(parseEnvFiles(clear(keys), fs, 1))

\* the contents of config files and of env files
ConfigContents == {<<>>, << <<"name">> >>, << <<"from", "address">>, <<"name">> >>}
EnvLines ==
    {<<"APP_NAME", Equals, "Laravel">>, <<Hash, "MY_KEY", Equals, "x">>,
     <<Space, "MY_KEY", Space, Equals, Space, "x">>, <<Equals, "x">>}
EnvContents == SeqsUpTo(EnvLines, MaxShort)

(***************************************************************************)
(* LaravelValidationCompletionProvider: the database tables                *)
(***************************************************************************)
\* A migration file as parseMigrationForSchema reads it: the table of its
\* first Schema::create (None: it has none) and its $table-> statements
SchemaFile(create, statements) == [create |-> create, statements |-> statements]
Statement(kind, name) == [kind |-> kind, name |-> name]

\* the columns the four columnPatterns push, pattern by pattern
RECURSIVE columnsOf(_, _, _)
columnsOf(statements, index, i) ==
    IF i > Len(statements) THEN <<>>
    ELSE LET s == statements[i]
         IN  (CASE index = 0 /\ s.kind = "id" -> <<IF s.name = None THEN "id" ELSE s.name>>
                [] index = 1 /\ s.kind \in {"id", "column"} /\ s.name # None -> <<s.name>>
                [] index = 2 /\ s.kind = "timestamps" -> <<"created_at", "updated_at">>
                [] index = 3 /\ s.kind = "softDeletes" -> <<"deleted_at">>
                [] OTHER -> <<>>)
             \o columnsOf(statements, index, i + 1)

parseMigrationForSchema(tables, file) ==
    IF file.create = None THEN tables
    ELSE MapSet(tables, file.create,
                [name |-> file.create,
                 columns |-> columnsOf(file.statements, 0, 1)
                             \o columnsOf(file.statements, 1, 1)
                             \o columnsOf(file.statements, 2, 1)
                             \o columnsOf(file.statements, 3, 1)])

RECURSIVE parseSchemaFiles(_, _, _, _)
parseSchemaFiles(tables, names, files, i) ==
    IF i > Len(names) THEN tables
    ELSE parseSchemaFiles(tryParse(files[names[i]], tables,
                                   parseMigrationForSchema(tables, files[names[i]].content)),
                          names, files, i + 1)

\* analyzeDatabaseSchema: what it leaves in this.databaseTables
analyzedDatabaseSchema(tables, fs) ==
    IF ~fs.dir THEN clear(tables)
    ELSE parseSchemaFiles(clear(tables), sort(existing(fs.listing, fs.files, 1)),
                          fs.files, 1)

SchemaContents ==
    {SchemaFile("users", <<Statement("id", None), Statement("column", "email")>>),
     SchemaFile("users", <<Statement("column", "name"), Statement("timestamps", None)>>),
     SchemaFile("posts", <<Statement("id", "post_id"), Statement("softDeletes", None)>>),
     SchemaFile(None, <<Statement("column", "status")>>)}

(***************************************************************************)
(* TranslationProvider and TranslationDiagnosticsProvider                  *)
(***************************************************************************)
\* The translation files: messages.php of a locale directory of lang/ or of
\* resources/lang/, in the order loadTranslations reaches them.  The content
\* of a file is the sequence of the keys of its returned array, each with a
\* string value; its entries get the key `messages.${key}`.
LangFiles == <<"lang/en", "lang/fr", "resources/lang/en">>
Namespace == "messages"

\* the locale directory of a translation file
LocaleOf(file) == IF file = "lang/fr" THEN "fr" ELSE "en"

\* The project files the usage scans read, and the globs of scanForUsages
SourceFiles == <<"HomeController.php", "home.blade.php">>
Globs == <<"**/*.php", "**/*.blade.php">>

GlobMatches(glob, file) ==
    IF glob = "**/*.php" THEN file \in {"HomeController.php", "home.blade.php"}
    ELSE file = "home.blade.php"

\* A translation call of a source file: how it is written, and its key
Call(form, key) == [form |-> form, key |-> key]
Forms == {"trans(", "__(", "trans_choice(", "@lang(", "{{ trans(", "{{ __("}

\* The six patterns of scanFileForUsages and of findTranslationCalls: the
\* method each records, and the forms of call each matches
patterns ==
    <<[method |-> "trans", forms |-> {"trans(", "{{ trans("}],
      [method |-> "__", forms |-> {"__(", "{{ __("}],
      [method |-> "trans_choice", forms |-> {"trans_choice("}],
      [method |-> "@lang", forms |-> {"@lang("}],
      [method |-> "trans", forms |-> {"{{ trans("}],
      [method |-> "__", forms |-> {"{{ __("}]>>

\* where in the text a pattern matches call i: at the call, or, for a pattern
\* without '{{' in a call written with it, three characters on
MatchAt(p, i, form) == <<i, IF p <= 4 /\ form \in {"{{ trans(", "{{ __("} THEN 3 ELSE 0>>

TranslationKey(key, file, locale, isUsed) ==
    [key |-> key, file |-> file, locale |-> locale, isUsed |-> isUsed]

TranslationUsage(key, file, at, method) ==
    [key |-> key, file |-> file, at |-> at, method |-> method]

addTranslation(map, key, file, locale) ==
    MapSet(map, key,
           Append(IF MapHas(map, key) THEN MapGet(map, key) ELSE <<>>,
                  TranslationKey(key, file, locale, FALSE)))

\* parsePhpTranslationFile, parsePhpArray
RECURSIVE parsePhpArray(_, _, _, _)
parsePhpArray(map, content, file, i) ==
    IF i > Len(content) THEN map
    ELSE parsePhpArray(addTranslation(map, <<Namespace, content[i]>>, file, LocaleOf(file)),
                       content, file, i + 1)

\* loadTranslations, scanTranslationDirectory, scanLocaleDirectory
RECURSIVE loadTranslations(_, _, _)
loadTranslations(map, fs, i) ==
    IF i > Len(LangFiles) THEN map
    ELSE loadTranslations(IF fs[LangFiles[i]].exists
                          THEN tryParse(fs[LangFiles[i]], map,
                                        parsePhpArray(map, fs[LangFiles[i]].content,
                                                      LangFiles[i], 1))
                          ELSE map,
                          fs, i + 1)

\* A variant that marks the first entry of the key only
markFirstAsUsed(map, key) ==
    IF MapHas(map, key)
    THEN MapSet(map, key, [MapGet(map, key) EXCEPT ![1].isUsed = TRUE])
    ELSE map

markTranslationAsUsed(map, key) ==
    IF MapHas(map, key)
    THEN MapSet(map, key,
                [j \in 1..Len(MapGet(map, key)) |->
                    [MapGet(map, key)[j] EXCEPT !.isUsed = TRUE]])
    ELSE map

\* the index: this.translations and this.usages
TranslationIndex(map, uses) == [translations |-> map, usages |-> uses]

\* one pattern of scanFileForUsages over the calls of a file
RECURSIVE scanPattern(_, _, _, _, _)
scanPattern(index, file, content, p, i) ==
    IF i > Len(content) THEN index
    ELSE scanPattern(
             IF content[i].form \in patterns[p].forms
             THEN TranslationIndex(
                      markTranslationAsUsed(index.translations, content[i].key),
                      Append(index.usages,
                             TranslationUsage(content[i].key, file,
                                              MatchAt(p, i, content[i].form),
                                              patterns[p].method)))
             ELSE index,
             file, content, p, i + 1)

RECURSIVE scanFileForUsages(_, _, _, _)
scanFileForUsages(index, file, content, p) ==
    IF p > Len(patterns) THEN index
    ELSE LET scanned == scanPattern(index, file, content, p, 1)
         IN  \* a pattern without a match leaves the index as it is
             IF scanned = index THEN scanFileForUsages(index, file, content, p + 1)
             ELSE scanFileForUsages(scanned, file, content, p + 1)

\* the callback of findFiles(pattern): every file found is scanned
RECURSIVE scanFiles(_, _, _, _)
scanFiles(index, glob, fs, i) ==
    IF i > Len(SourceFiles) THEN index
    ELSE LET file == SourceFiles[i]
             scanned == IF fs[file].exists /\ GlobMatches(glob, file)
                        THEN tryParse(fs[file], index,
                                      scanFileForUsages(index, file, fs[file].content, 1))
                        ELSE index
         IN  \* a file without a call leaves the index as it is
             IF scanned = index THEN scanFiles(index, glob, fs, i + 1)
             ELSE scanFiles(scanned, glob, fs, i + 1)

RECURSIVE allEntries(_, _)
allEntries(map, i) ==
    IF i > Len(map) THEN <<>> ELSE map[i].v \o allEntries(map, i + 1)

getUnusedTranslations(map) == SelectSeq(allEntries(map, 1), LAMBDA t : ~t.isUsed)

\* this.usages.forEach(usage => allKeys.add(usage.key))
RECURSIVE usageKeys(_, _)
usageKeys(uses, n) ==
    IF n = 0 THEN <<>> ELSE SetAdd(usageKeys(uses, n - 1), uses[n].key)

\* A variant that looks at the key of every usage, without the Set
getMissingOfEveryUsage(map, uses) ==
    SelectSeq([i \in 1..Len(uses) |-> uses[i].key], LAMBDA key : ~MapHas(map, key))

getMissingTranslations(map, uses) ==
    SelectSeq(usageKeys(uses, Len(uses)), LAMBDA key : ~MapHas(map, key))

RECURSIVE localesOf(_, _)
localesOf(entries, i) ==
    IF i > Len(entries) THEN <<>>
    ELSE LET rest == localesOf(entries, i + 1)
         IN  <<entries[i].locale>> \o SelectSeq(rest, LAMBDA l : l # entries[i].locale)

RECURSIVE firstEntries(_, _)
firstEntries(map, i) ==
    IF i > Len(map) THEN <<>> ELSE <<map[i].v[1]>> \o firstEntries(map, i + 1)

\* A variant that looks at the first entry of every key only
getLocalesOfFirst(map) == localesOf(firstEntries(map, 1), 1)

getLocales(map) == localesOf(allEntries(map, 1), 1)

\* one pattern of findTranslationCalls over the calls of the text
RECURSIVE findPattern(_, _, _)
findPattern(content, p, i) ==
    IF i > Len(content) THEN <<>>
    ELSE (IF content[i].form \in patterns[p].forms
          THEN <<[key |-> content[i].key, method |-> patterns[p].method,
                  range |-> MatchAt(p, i, content[i].form)]>>
          ELSE <<>>)
         \o findPattern(content, p, i + 1)

RECURSIVE findTranslationCalls(_, _)
findTranslationCalls(content, p) ==
    IF p > Len(patterns) THEN <<>>
    ELSE findPattern(content, p, 1) \o findTranslationCalls(content, p + 1)

Diagnostic(code, call, locales) ==
    [code |-> code, key |-> call.key, range |-> call.range, locales |-> locales]

RECURSIVE diagnose(_, _, _)
diagnose(map, calls, i) ==
    IF i > Len(calls) THEN <<>>
    ELSE LET call == calls[i]
             translationLocales ==
                 {MapGet(map, call.key)[j].locale : j \in 1..Len(MapGet(map, call.key))}
             missingLocales ==
                 SelectSeq(getLocales(map), LAMBDA locale : locale \notin translationLocales)
         IN  (IF ~MapHas(map, call.key)
              THEN <<Diagnostic("missing-translation", call, <<>>)>>
              ELSE IF Len(missingLocales) > 0
              THEN <<Diagnostic("incomplete-translation", call, missingLocales)>>
              ELSE <<>>)
             \o diagnose(map, calls, i + 1)

\* updateDiagnostics(document): the diagnostics it sets for the document
updateDiagnostics(map, content) == diagnose(map, findTranslationCalls(content, 1), 1)

Welcome == <<Namespace, "welcome">>
Bye == <<Namespace, "bye">>
Gone == <<Namespace, "gone">>

SourceContents ==
    {<<Call("trans(", Welcome)>>, <<Call("{{ __(", Bye), Call("@lang(", Welcome)>>,
     <<Call("trans_choice(", Gone)>>, <<Call("{{ trans(", Welcome)>>}

(***************************************************************************)
(* Values handed to callers                                                *)
(***************************************************************************)
\* A caller keeps the value a lookup returned.  ref "live" says the value is
\* the provider's own container object (the getter returns the field itself),
\* ref "copy" that it is an object of its own (a new array, or an array the
\* provider no longer refers to); value is what it held when it was returned;
\* rebuilt says that the provider has rebuilt an index since.
Held(getter, ref, value) ==
    [getter |-> getter, ref |-> ref, value |-> value, rebuilt |-> FALSE]

\* this.controllerRoutes.clear() drops the Map's arrays without changing
\* them: an array a caller holds keeps its elements
detached(h) == IF h.ref = "live" THEN [h EXCEPT !.ref = "copy"] ELSE h

NoHeld == Held(None, None, <<>>)

afterRebuild(h) == IF h = NoHeld THEN h ELSE [h EXCEPT !.rebuilt = TRUE]

\* The index a completed rebuild of an extractor left, to compare its next
\* rebuild with; fresh is FALSE when files it reads have changed since
\* (again: it was a rebuild over files unchanged since the rebuild before, which
\* left the index before)
Extractors == {"routes", "migrations", "models", "config", "env", "tables", "translations"}
Built(index) == [fresh |-> TRUE, again |-> FALSE, before |-> <<>>, index |-> index]
NoBuild == [fresh |-> FALSE, again |-> FALSE, before |-> <<>>, index |-> <<>>]
Rebuilt(last, index) ==
    [fresh |-> TRUE, again |-> last.fresh,
     before |-> IF last.fresh THEN last.index ELSE <<>>, index |-> index]
NoBuilds == [x \in Extractors |-> NoBuild]

(***************************************************************************)
(* EnhancedRouteInlayProvider: operations                                  *)
(***************************************************************************)
ControllerNames ==
    {<<"User", Ctl>>, <<"User">>, <<"Post">>, <<"Photo", Ctl>>,
     <<Ctl, "User", Ctl>>, <<Ctl, "User">>}
MethodNames == {"index", "store", "resource"}

RouteIndex == [routes |-> routes, controllerRoutes |-> controllerRoutes]

SchemaIdle ==
    /\ schemaFs = [listing |-> <<>>,
                   migrations |-> [f \in MigrationFileNames |-> NoFile],
                   model |-> NoFile]
    /\ migrations = EmptyMap
    /\ models = EmptyMap
    /\ schemaEvents = [migration |-> 0, model |-> 0]

RoutesIdle ==
    /\ routeFs = [dir |-> FALSE, files |-> [f \in Range(RouteFileNames) |-> NoFile]]
    /\ routes = EmptyMap
    /\ controllerRoutes = EmptyMap
    /\ routeEvents = 0

\* The other providers, as constructed on a workspace without their files
NoConfigFiles ==
    [dir |-> FALSE, files |-> [f \in Range(ConfigFileNames) |-> NoFile],
     env |-> [f \in Range(EnvFileNames) |-> NoFile]]

ConfigIdle ==
    /\ configFs = NoConfigFiles
    /\ configKeys = <<>>
    /\ envKeys = loadedEnvKeys(<<>>, NoConfigFiles)
    /\ configEvents = [config |-> 0, env |-> 0]

TablesIdle ==
    /\ tablesFs = [dir |-> FALSE, listing |-> <<>>,
                   files |-> [f \in MigrationFileNames |-> NoFile]]
    /\ databaseTables = EmptyMap
    /\ tableEvents = 0

NoScans == [pending |-> [g \in Range(Globs) |-> 0], clean |-> TRUE]

TranslationsIdle ==
    /\ langFs = [f \in Range(LangFiles) |-> NoFile]
    /\ sourceFs = [f \in Range(SourceFiles) |-> NoFile]
    /\ translations = EmptyMap
    /\ usages = <<>>
    /\ scans = NoScans
    /\ langEvents = 0

IdleExcept(c) ==
    /\ IF c = "routes" THEN TRUE ELSE RoutesIdle
    /\ IF c = "schema" THEN TRUE ELSE SchemaIdle
    /\ IF c = "config" THEN TRUE ELSE ConfigIdle
    /\ IF c = "tables" THEN TRUE ELSE TablesIdle
    /\ IF c = "translations" THEN TRUE ELSE TranslationsIdle

\* The result of the last request of a caller, while the index is as the
\* request saw it
Answer(op, args, value) == [op |-> op, args |-> args, value |-> value]
NoAnswer == Answer(None, <<>>, <<>>)

\* new EnhancedRouteInlayProvider(workspaceRoot): parseAllRoutes(), setupWatchers()
InitRoutesOver(webFiles, apiFiles) ==
    /\ component = "routes"
    /\ lastOp = "parseAllRoutes"
    /\ \E web \in webFiles, api \in apiFiles :
          routeFs = [dir |-> TRUE,
                     files |-> [f \in Range(RouteFileNames) |->
                                   IF f = "web.php" THEN web ELSE api]]
    /\ routes = parsedRoutes(EmptyMap, routeFs)
    /\ controllerRoutes = buildControllerRouteMap(routes)
    /\ routeEvents = 0
    /\ IdleExcept("routes")
    /\ held = NoHeld
    /\ answer = NoAnswer
    /\ prevBuild = [NoBuilds EXCEPT !["routes"] = Built(RouteIndex)]

InitRoutesOf(maxLines) ==
    InitRoutesOver({File(c) : c \in SeqsUpTo(WebLines, maxLines)},
                   {File(c) : c \in ApiContents} \cup {NoFile})

\* routes/api.php is created or changed
WriteRouteFile ==
    /\ component = "routes"
    /\ UNCHANGED otherThanRoutes
    /\ routeFs.dir
    /\ routeEvents < MaxEvents
    /\ \E c \in ApiContents :
          /\ File(c) # routeFs.files["api.php"]
          /\ routeFs' = [routeFs EXCEPT !.files["api.php"] = File(c)]
    /\ routeEvents' = routeEvents + 1
    /\ lastOp' = "write"
    /\ prevBuild' = [prevBuild EXCEPT !["routes"] = NoBuild]
    /\ UNCHANGED <<component, routes, controllerRoutes, held>>

\* a route file is saved with the content it had
TouchRouteFile ==
    /\ component = "routes"
    /\ UNCHANGED otherThanRoutes
    /\ routeFs.dir
    /\ routeEvents < MaxEvents
    /\ \E f \in Range(RouteFileNames) : routeFs.files[f].exists
    /\ routeEvents' = routeEvents + 1
    /\ UNCHANGED <<component, lastOp, routeFs, routes, controllerRoutes, held, prevBuild>>

\* routes/api.php is deleted
DeleteRouteFile ==
    /\ component = "routes"
    /\ UNCHANGED otherThanRoutes
    /\ routeFs.dir
    /\ routeEvents < MaxEvents
    /\ routeFs.files["api.php"].exists
    /\ routeFs' = [routeFs EXCEPT !.files["api.php"] = NoFile]
    /\ routeEvents' = routeEvents + 1
    /\ lastOp' = "delete"
    /\ prevBuild' = [prevBuild EXCEPT !["routes"] = NoBuild]
    /\ UNCHANGED <<component, routes, controllerRoutes, held>>

\* the routes directory is removed with everything in it
RemoveRoutesDir ==
    /\ component = "routes"
    /\ UNCHANGED otherThanRoutes
    /\ routeFs.dir
    /\ routeEvents < MaxEvents
    /\ routeFs' = [dir |-> FALSE, files |-> [f \in Range(RouteFileNames) |-> NoFile]]
    /\ routeEvents' = routeEvents + 1
    /\ lastOp' = "delete"
    /\ prevBuild' = [prevBuild EXCEPT !["routes"] = NoBuild]
    /\ UNCHANGED <<component, routes, controllerRoutes, held>>

\* routeWatcher.onDidChange / onDidCreate / onDidDelete: parseAllRoutes()
parseAllRoutes ==
    /\ component = "routes"
    /\ UNCHANGED otherThanRoutes
    /\ routeEvents > 0
    /\ routeEvents' = routeEvents - 1
    /\ routes' = parsedRoutes(routes, routeFs)
    /\ controllerRoutes' = IF ~routeFs.dir THEN EmptyMap
                           ELSE buildControllerRouteMap(routes')
    /\ held' = afterRebuild(detached(held))
    /\ lastOp' = "parseAllRoutes"
    /\ prevBuild' = [prevBuild EXCEPT !["routes"] =
                        Rebuilt(@, [routes |-> routes',
                                    controllerRoutes |-> controllerRoutes'])]
    /\ UNCHANGED <<component, routeFs>>

\* a caller calls getAllRoutes() and keeps the array
CallGetAllRoutes ==
    /\ component = "routes"
    /\ UNCHANGED otherThanRoutes
    /\ held = NoHeld
    /\ held' = Held("getAllRoutes", "copy", getAllRoutes(routes))
    /\ UNCHANGED <<component, lastOp, routeFs, routes, controllerRoutes, routeEvents,
                   prevBuild>>

\* a caller calls getRoutesForController(c, m) and keeps the array: the Map's
\* own array when a key matches, a new empty array otherwise
CallGetRoutesForController ==
    /\ component = "routes"
    /\ UNCHANGED otherThanRoutes
    /\ held = NoHeld
    /\ \E c \in ControllerNames, m \in MethodNames :
          LET found == getRoutesForController(controllerRoutes, c, m)
          IN  held' = Held("getRoutesForController",
                           IF found = <<>> THEN "copy" ELSE "live", found)
    /\ UNCHANGED <<component, lastOp, routeFs, routes, controllerRoutes, routeEvents,
                   prevBuild>>

\* The route index over route files that stay as they are
NextRouteParse ==
    \/ TouchRouteFile
    \/ parseAllRoutes
    \/ CallGetAllRoutes
    \/ CallGetRoutesForController

SpecRouteParse == InitRoutesOf(MaxLines) /\ [][NextRouteParse]_vars

\* The controller index over routes of controllers whose names differ in
\* where 'Controller' stands
\* Route::get('users', [User::class, 'index']);
GetUsersOfUser == RouteLine("array", "get", <<"users">>, <<"User">>, "index", None)
\* Route::get('users', [ControllerUserController::class, 'index']);
GetUsersOfControllerUser ==
    RouteLine("array", "get", <<"users">>, <<Ctl, "User", Ctl>>, "index", None)
\* Route::get('users', [ControllerUser::class, 'index']);
GetUsersOfControllerUserShort ==
    RouteLine("array", "get", <<"users">>, <<Ctl, "User">>, "index", None)

ControllerLines ==
    {GetUsers, GetUsersOfUser, GetUsersOfControllerUser, GetUsersOfControllerUserShort,
     PostPosts, ResourcePhotos}

\* The route index over files in which ->name(...) stands on the line of a
\* route, on a line after it, and more than two lines after it
MaxNameLines == 4
NameLines == {GetUsers, PostPosts, NameUsers, CloseLine}

SpecNames ==
    InitRoutesOver({File(c) : c \in SeqsUpTo(NameLines, MaxNameLines)}, {NoFile})
        /\ [][NextRouteParse]_vars

\* The route index over files with groups that follow one another and groups
\* inside groups
MaxGroupLines == 4
GroupLines == {GroupAdmin, GroupV1, CloseLine, GetUsers}

SpecGroups ==
    InitRoutesOver({File(c) : c \in SeqsUpTo(GroupLines, MaxGroupLines)}, {NoFile})
        /\ [][NextRouteParse]_vars

SpecControllers ==
    InitRoutesOver({File(c) : c \in SeqsUpTo(ControllerLines, MaxLines)}, {NoFile})
        /\ [][NextRouteParse]_vars

\* The route index while route files are written and deleted
InitRoutes == InitRoutesOf(MaxShort)

NextRoutes ==
    \/ WriteRouteFile
    \/ TouchRouteFile
    \/ DeleteRouteFile
    \/ RemoveRoutesDir
    \/ parseAllRoutes
    \/ CallGetAllRoutes
    \/ CallGetRoutesForController

SpecRoutes == InitRoutes /\ [][NextRoutes]_vars


(***************************************************************************)
(* LaravelIntelligentCompletionProvider: operations                        *)
(***************************************************************************)
SchemaIndex == [migrations |-> migrations, models |-> models]

\* The directory listings of database/migrations: ascending or descending
Listings ==
    {[i \in 1..MaxMigrations |-> i], [i \in 1..MaxMigrations |-> MaxMigrations + 1 - i]}

\* new LaravelIntelligentCompletionProvider(workspaceRoot): analyzeProject()
\* (analyzeMigrations, then analyzeModels), setupWatchers()
InitSchemaOf(fileSystems) ==
    /\ component = "schema"
    /\ lastOp = "analyzeModels"
    /\ schemaFs \in fileSystems
    /\ migrations = analyzedMigrations(schemaFs)
    /\ models = analyzedModels(migrations, schemaFs)
    /\ schemaEvents = [migration |-> 0, model |-> 0]
    /\ IdleExcept("schema")
    /\ held = NoHeld
    /\ answer = NoAnswer
    /\ prevBuild = [NoBuilds EXCEPT !["migrations"] = Built(migrations),
                                    !["models"] = Built(models)]

\* The contents with which the first migration file and the model class file
\* are written while the provider runs
WrittenMigrations ==
    {Migration("orders", <<StatusString>>, <<>>),
     Migration("orders", <<Column("integer", "status", TRUE, None)>>, <<>>)}
WrittenModels == {ModelFile(TRUE, "", <<"status">>, <<>>, <<>>)}

\* the first migration file is created or changed
WriteMigration ==
    /\ component = "schema"
    /\ UNCHANGED otherThanSchema
    /\ schemaEvents.migration < MaxEvents
    /\ \E c \in WrittenMigrations :
          /\ schemaFs.migrations[1] # File(c)
          /\ schemaFs' = [schemaFs EXCEPT !.migrations[1] = File(c)]
    /\ schemaEvents' = [schemaEvents EXCEPT !.migration = @ + 1]
    /\ lastOp' = "write"
    /\ prevBuild' = [prevBuild EXCEPT !["migrations"] = NoBuild]
    /\ UNCHANGED <<component, migrations, models, held>>

\* a migration file is deleted
DeleteMigration ==
    /\ component = "schema"
    /\ UNCHANGED otherThanSchema
    /\ schemaEvents.migration < MaxEvents
    /\ \E f \in MigrationFileNames :
          /\ schemaFs.migrations[f].exists
          /\ schemaFs' = [schemaFs EXCEPT !.migrations[f] = NoFile]
    /\ schemaEvents' = [schemaEvents EXCEPT !.migration = @ + 1]
    /\ lastOp' = "delete"
    /\ prevBuild' = [prevBuild EXCEPT !["migrations"] = NoBuild]
    /\ UNCHANGED <<component, migrations, models, held>>

\* a migration file is saved with the content it had
TouchMigration ==
    /\ component = "schema"
    /\ UNCHANGED otherThanSchema
    /\ schemaEvents.migration < MaxEvents
    /\ \E f \in MigrationFileNames : schemaFs.migrations[f].exists
    /\ schemaEvents' = [schemaEvents EXCEPT !.migration = @ + 1]
    /\ UNCHANGED <<component, lastOp, schemaFs, migrations, models, held, prevBuild>>

\* the model class file is created or changed
WriteModelFile ==
    /\ component = "schema"
    /\ UNCHANGED otherThanSchema
    /\ schemaEvents.model < MaxEvents
    /\ \E c \in WrittenModels :
          /\ schemaFs.model # File(c)
          /\ schemaFs' = [schemaFs EXCEPT !.model = File(c)]
    /\ schemaEvents' = [schemaEvents EXCEPT !.model = @ + 1]
    /\ lastOp' = "write"
    /\ prevBuild' = [prevBuild EXCEPT !["models"] = NoBuild]
    /\ UNCHANGED <<component, migrations, models, held>>

\* the model class file is deleted
DeleteModelFile ==
    /\ component = "schema"
    /\ UNCHANGED otherThanSchema
    /\ schemaEvents.model < MaxEvents
    /\ schemaFs.model.exists
    /\ schemaFs' = [schemaFs EXCEPT !.model = NoFile]
    /\ schemaEvents' = [schemaEvents EXCEPT !.model = @ + 1]
    /\ lastOp' = "delete"
    /\ prevBuild' = [prevBuild EXCEPT !["models"] = NoBuild]
    /\ UNCHANGED <<component, migrations, models, held>>

\* the model class file is saved with the content it had
TouchModelFile ==
    /\ component = "schema"
    /\ UNCHANGED otherThanSchema
    /\ schemaEvents.model < MaxEvents
    /\ schemaFs.model.exists
    /\ schemaEvents' = [schemaEvents EXCEPT !.model = @ + 1]
    /\ UNCHANGED <<component, lastOp, schemaFs, migrations, models, held, prevBuild>>

\* migrationWatcher.onDidChange / onDidCreate / onDidDelete: analyzeMigrations()
analyzeMigrations ==
    /\ component = "schema"
    /\ UNCHANGED otherThanSchema
    /\ schemaEvents.migration > 0
    /\ schemaEvents' = [schemaEvents EXCEPT !.migration = @ - 1]
    /\ migrations' = analyzedMigrations(schemaFs)
    /\ lastOp' = "analyzeMigrations"
    /\ prevBuild' = [prevBuild EXCEPT
                        !["migrations"] = Rebuilt(@, migrations'),
                        !["models"] = IF migrations' = migrations THEN @ ELSE NoBuild]
    /\ held' = afterRebuild(held)
    /\ UNCHANGED <<component, schemaFs, models>>

\* modelWatcher / appModelWatcher .onDidChange / onDidCreate / onDidDelete:
\* analyzeModels()
analyzeModels ==
    /\ component = "schema"
    /\ UNCHANGED otherThanSchema
    /\ schemaEvents.model > 0
    /\ schemaEvents' = [schemaEvents EXCEPT !.model = @ - 1]
    /\ models' = analyzedModels(migrations, schemaFs)
    /\ lastOp' = "analyzeModels"
    /\ prevBuild' = [prevBuild EXCEPT !["models"] = Rebuilt(@, models')]
    /\ held' = afterRebuild(held)
    /\ UNCHANGED <<component, schemaFs, migrations>>

\* a caller calls getAllModels() and keeps the array: Array.from(values)
CallGetAllModels ==
    /\ component = "schema"
    /\ UNCHANGED otherThanSchema
    /\ held = NoHeld
    /\ held' = Held("getAllModels", "copy", [i \in 1..Len(models) |-> models[i].v])
    /\ UNCHANGED <<component, lastOp, schemaVars, prevBuild>>

\* The model index over files that stay as they are: one migration file at
\* most, every model class
ModelParseFileSystems ==
    {[listing |-> [i \in 1..MaxMigrations |-> i],
      migrations |-> [f \in MigrationFileNames |-> IF f = 1 THEN m ELSE NoFile],
      model |-> File(c)] :
        m \in {File(x) : x \in MigrationContents} \cup {NoFile}, c \in ModelContents}

NextSchemaParse ==
    \/ TouchMigration
    \/ TouchModelFile
    \/ analyzeMigrations
    \/ analyzeModels
    \/ CallGetAllModels

SpecModelParse == InitSchemaOf(ModelParseFileSystems) /\ [][NextSchemaParse]_vars

\* analyzeProject() of the TypeScript source: analyzeMigrations(), then
\* analyzeModels(); the two Maps it leaves
analyzeProject(fs) ==
    LET migs == analyzedMigrations(fs)
    IN  [migrations |-> migs, models |-> analyzedModels(migs, fs)]

\* analyzeProject() of the compiled provider: analyzeModels() while
\* this.migrations is the empty Map of the constructor, then analyzeMigrations()
analyzeProjectCompiled(fs) ==
    [migrations |-> analyzedMigrations(fs), models |-> analyzedModels(EmptyMap, fs)]

\* new LaravelIntelligentCompletionProvider(workspaceRoot) of the compiled
\* provider: analyzeProject(), setupWatchers()
InitCompiledOf(fileSystems) ==
    /\ component = "schema"
    /\ lastOp = "analyzeProject"
    /\ schemaFs \in fileSystems
    /\ migrations = analyzeProjectCompiled(schemaFs).migrations
    /\ models = analyzeProjectCompiled(schemaFs).models
    /\ schemaEvents = [migration |-> 0, model |-> 0]
    /\ IdleExcept("schema")
    /\ held = NoHeld
    /\ answer = NoAnswer
    /\ prevBuild = [NoBuilds EXCEPT !["migrations"] = Built(migrations),
                                    !["models"] = Built(models)]


\* The model index over one migration of orders with one column, of every
\* verb migrationTypeToType knows and one it does not, and a model class with
\* one cast, of every cast castToType knows and one it does not
MigrationVerbs ==
    {"id", "bigIncrements", "increments", "integer", "bigInteger", "smallInteger",
     "tinyInteger", "unsignedInteger", "unsignedBigInteger", "string", "text",
     "mediumText", "longText", "char", "boolean", "date", "dateTime", "time",
     "timestamp", "timestamps", "decimal", "double", "float", "json", "jsonb",
     "binary", "enum", "uuid", "geometry"}

CastNames ==
    {"integer", "int", "real", "float", "double", "decimal", "string", "boolean",
     "bool", "object", "array", "collection", "date", "datetime", "timestamp",
     "encrypted"}

TypeFileSystems ==
    {[listing |-> [i \in 1..MaxMigrations |-> i],
      migrations |-> [f \in MigrationFileNames |->
                         IF f = 1
                         THEN File(Migration("orders",
                                             <<Column(verb, "opens_at", FALSE, None)>>, <<>>))
                         ELSE NoFile],
      model |-> File(ModelFile(TRUE, "", <<"title">>, <<>>, <<Cast("flag", cast)>>))] :
        verb \in MigrationVerbs, cast \in CastNames}

SpecTypes == InitSchemaOf(TypeFileSystems) /\ [][NextSchemaParse]_vars

\* The migration index over files that stay as they are: every combination of
\* migration files of orders and of users, in either listing order, under
\* a model class of orders
OrderMigrations ==
    {Migration("orders", c, sp) :
        c \in {<<>>, <<StatusString>>, <<StatusNullable>>, <<CreatedAt>>},
        sp \in SpecialLists}
    \cup {Migration("users", c, <<>>) : c \in {<<StatusString>>, <<StatusNullable>>}}

MigrationFileSystems ==
    {[listing |-> l, migrations |-> ms, model |-> c] :
        l \in Listings,
        ms \in [MigrationFileNames -> {File(x) : x \in OrderMigrations} \cup {NoFile}],
        c \in {File(ModelFile(TRUE, "", <<"status">>, <<>>, <<>>))}}

NextMigrations ==
    \/ TouchMigration
    \/ analyzeMigrations
    \/ CallGetAllModels

SpecMigrations == InitSchemaOf(MigrationFileSystems) /\ [][NextMigrations]_vars

\* The model index while migration and model files are written and deleted
SchemaFileSystems ==
    {[listing |-> [i \in 1..MaxMigrations |-> i],
      migrations |-> [f \in MigrationFileNames |-> IF f = 1 THEN m ELSE NoFile],
      model |-> c] :
        m \in {File(x) : x \in WrittenMigrations} \cup {NoFile},
        c \in {File(x) : x \in WrittenModels} \cup {NoFile}}

InitSchema == InitSchemaOf(SchemaFileSystems)

\* The compiled provider over files that stay as they are; its watchers call
\* analyzeModels() and analyzeMigrations() as those of the source do
SpecCompiled == InitCompiledOf(SchemaFileSystems) /\ [][NextSchemaParse]_vars

NextSchema ==
    \/ WriteMigration
    \/ DeleteMigration
    \/ TouchMigration
    \/ WriteModelFile
    \/ DeleteModelFile
    \/ TouchModelFile
    \/ analyzeMigrations
    \/ analyzeModels
    \/ CallGetAllModels

SpecSchema == InitSchema /\ [][NextSchema]_vars

(***************************************************************************)
(* ConfigCompletionProvider: operations                                    *)
(***************************************************************************)
ConfigFileSystems ==
    {[dir |-> TRUE,
      files |-> [f \in Range(ConfigFileNames) |->
                    CASE f = "app.php" -> app
                      [] f = "mail.php" -> mail
                      [] OTHER -> File(<< <<"name">> >>)],
      env |-> [f \in Range(EnvFileNames) |->
                  CASE f = ".env" -> File(env)
                    [] f = ".env.local" -> local
                    [] OTHER -> NoFile]] :
        app \in {NoFile, File(<< <<"name">> >>)},
        mail \in {NoFile} \cup {File(c) : c \in ConfigContents},
        env \in EnvContents,
        local \in {NoFile, File(<< <<"APP_NAME", Equals, "Laravel">> >>)}}

\* new ConfigCompletionProvider(workspaceRoot): loadConfigKeys(),
\* loadEnvKeys(), setupWatchers()
InitConfigOf(fileSystems) ==
    /\ component = "config"
    /\ lastOp = "loadEnvKeys"
    /\ configFs \in fileSystems
    /\ configKeys = loadedConfigKeys(<<>>, configFs)
    /\ envKeys = loadedEnvKeys(<<>>, configFs)
    /\ configEvents = [config |-> 0, env |-> 0]
    /\ IdleExcept("config")
    /\ held = NoHeld
    /\ answer = NoAnswer
    /\ prevBuild = [NoBuilds EXCEPT !["config"] = Built(configKeys),
                                    !["env"] = Built(envKeys)]

\* The contents with which config/mail.php and .env.local are written while
\* the provider runs
WrittenConfigContents == {<< <<"name">> >>}
WrittenEnvContents == {<< <<Space, "MY_KEY", Space, Equals, Space, "x">> >>}

\* config/mail.php is created or changed
WriteConfigFile ==
    /\ component = "config"
    /\ UNCHANGED otherThanConfig
    /\ configFs.dir
    /\ configEvents.config < MaxEvents
    /\ \E c \in WrittenConfigContents :
          /\ configFs.files["mail.php"] # File(c)
          /\ configFs' = [configFs EXCEPT !.files["mail.php"] = File(c)]
    /\ configEvents' = [configEvents EXCEPT !.config = @ + 1]
    /\ lastOp' = "write"
    /\ prevBuild' = [prevBuild EXCEPT !["config"] = NoBuild]
    /\ UNCHANGED <<component, configKeys, envKeys, held>>

\* a config file is saved with the content it had
TouchConfigFile ==
    /\ component = "config"
    /\ UNCHANGED otherThanConfig
    /\ configEvents.config < MaxEvents
    /\ \E f \in Range(ConfigFileNames) :
          configFs.files[f].exists /\ endsWithPhp(f)
    /\ configEvents' = [configEvents EXCEPT !.config = @ + 1]
    /\ UNCHANGED <<component, lastOp, configFs, configKeys, envKeys, held, prevBuild>>

\* config/mail.php is deleted
DeleteConfigFile ==
    /\ component = "config"
    /\ UNCHANGED otherThanConfig
    /\ configEvents.config < MaxEvents
    /\ configFs.files["mail.php"].exists
    /\ configFs' = [configFs EXCEPT !.files["mail.php"] = NoFile]
    /\ configEvents' = [configEvents EXCEPT !.config = @ + 1]
    /\ lastOp' = "delete"
    /\ prevBuild' = [prevBuild EXCEPT !["config"] = NoBuild]
    /\ UNCHANGED <<component, configKeys, envKeys, held>>

\* the config directory is removed with everything in it
RemoveConfigDir ==
    /\ component = "config"
    /\ UNCHANGED otherThanConfig
    /\ configFs.dir
    /\ configEvents.config < MaxEvents
    /\ configFs' = [configFs EXCEPT !.dir = FALSE, !.files = NoConfigFiles.files]
    /\ configEvents' = [configEvents EXCEPT !.config = @ + 1]
    /\ lastOp' = "delete"
    /\ prevBuild' = [prevBuild EXCEPT !["config"] = NoBuild]
    /\ UNCHANGED <<component, configKeys, envKeys, held>>

\* .env.local is created or changed
WriteEnvFile ==
    /\ component = "config"
    /\ UNCHANGED otherThanConfig
    /\ configEvents.env < MaxEvents
    /\ \E c \in WrittenEnvContents :
          /\ configFs.env[".env.local"] # File(c)
          /\ configFs' = [configFs EXCEPT !.env[".env.local"] = File(c)]
    /\ configEvents' = [configEvents EXCEPT !.env = @ + 1]
    /\ lastOp' = "write"
    /\ prevBuild' = [prevBuild EXCEPT !["env"] = NoBuild]
    /\ UNCHANGED <<component, configKeys, envKeys, held>>

\* an env file is saved with the content it had
TouchEnvFile ==
    /\ component = "config"
    /\ UNCHANGED otherThanConfig
    /\ configEvents.env < MaxEvents
    /\ \E f \in Range(EnvFileNames) : configFs.env[f].exists
    /\ configEvents' = [configEvents EXCEPT !.env = @ + 1]
    /\ UNCHANGED <<component, lastOp, configFs, configKeys, envKeys, held, prevBuild>>

\* .env.local is deleted
DeleteEnvFile ==
    /\ component = "config"
    /\ UNCHANGED otherThanConfig
    /\ configEvents.env < MaxEvents
    /\ configFs.env[".env.local"].exists
    /\ configFs' = [configFs EXCEPT !.env[".env.local"] = NoFile]
    /\ configEvents' = [configEvents EXCEPT !.env = @ + 1]
    /\ lastOp' = "delete"
    /\ prevBuild' = [prevBuild EXCEPT !["env"] = NoBuild]
    /\ UNCHANGED <<component, configKeys, envKeys, held>>

\* configWatcher.onDidChange / onDidCreate / onDidDelete: loadConfigKeys()
loadConfigKeys ==
    /\ component = "config"
    /\ UNCHANGED otherThanConfig
    /\ configEvents.config > 0
    /\ configEvents' = [configEvents EXCEPT !.config = @ - 1]
    /\ configKeys' = loadedConfigKeys(configKeys, configFs)
    /\ lastOp' = "loadConfigKeys"
    /\ prevBuild' = [prevBuild EXCEPT !["config"] = Rebuilt(@, configKeys')]
    /\ held' = afterRebuild(held)
    /\ UNCHANGED <<component, configFs, envKeys>>

\* envWatcher.onDidChange / onDidCreate / onDidDelete: loadEnvKeys()
loadEnvKeys ==
    /\ component = "config"
    /\ UNCHANGED otherThanConfig
    /\ configEvents.env > 0
    /\ configEvents' = [configEvents EXCEPT !.env = @ - 1]
    /\ envKeys' = loadedEnvKeys(envKeys, configFs)
    /\ lastOp' = "loadEnvKeys"
    /\ prevBuild' = [prevBuild EXCEPT !["env"] = Rebuilt(@, envKeys')]
    /\ held' = afterRebuild(held)
    /\ UNCHANGED <<component, configFs, configKeys>>

\* a caller calls getConfigKeys() and keeps the Set: this.configKeys itself
CallGetConfigKeys ==
    /\ component = "config"
    /\ UNCHANGED otherThanConfig
    /\ held = NoHeld
    /\ held' = Held("getConfigKeys", "live", configKeys)
    /\ UNCHANGED <<component, lastOp, configFs, configKeys, envKeys, configEvents,
                   prevBuild>>

\* a caller calls getEnvKeys() and keeps the Set: this.envKeys itself
CallGetEnvKeys ==
    /\ component = "config"
    /\ UNCHANGED otherThanConfig
    /\ held = NoHeld
    /\ held' = Held("getEnvKeys", "live", envKeys)
    /\ UNCHANGED <<component, lastOp, configFs, configKeys, envKeys, configEvents,
                   prevBuild>>

\* The key sets over files that stay as they are
NextConfigParse ==
    \/ TouchConfigFile
    \/ TouchEnvFile
    \/ loadConfigKeys
    \/ loadEnvKeys
    \/ CallGetConfigKeys
    \/ CallGetEnvKeys

SpecConfigParse ==
    InitConfigOf(ConfigFileSystems \cup {NoConfigFiles}) /\ [][NextConfigParse]_vars

\* The key sets while config/mail.php and .env.local are written and deleted
WrittenConfigFileSystems ==
    {fs \in ConfigFileSystems :
        /\ fs.files["app.php"].exists
        /\ fs.files["mail.php"] \in {NoFile, File(<< <<"from", "address">>, <<"name">> >>)}
        /\ fs.env[".env"] = File(<<>>)
        /\ ~fs.env[".env.local"].exists}

InitConfig == InitConfigOf(WrittenConfigFileSystems)

NextConfig ==
    \/ WriteConfigFile
    \/ TouchConfigFile
    \/ DeleteConfigFile
    \/ RemoveConfigDir
    \/ WriteEnvFile
    \/ TouchEnvFile
    \/ DeleteEnvFile
    \/ loadConfigKeys
    \/ loadEnvKeys
    \/ CallGetConfigKeys
    \/ CallGetEnvKeys

SpecConfig == InitConfig /\ [][NextConfig]_vars

(***************************************************************************)
(* LaravelValidationCompletionProvider: operations                         *)
(***************************************************************************)
TableFileSystems ==
    {[dir |-> TRUE, listing |-> listing,
      files |-> [f \in MigrationFileNames |-> IF f = 1 THEN first ELSE File(later)]] :
        listing \in Listings,
        first \in {NoFile} \cup {File(c) : c \in SchemaContents},
        later \in SchemaContents}
    \cup {[dir |-> FALSE, listing |-> <<>>, files |-> [f \in MigrationFileNames |-> NoFile]]}

\* new LaravelValidationCompletionProvider(workspaceRoot):
\* initializeValidationRules(), analyzeDatabaseSchema(), setupWatchers()
InitTablesOf(fileSystems) ==
    /\ component = "tables"
    /\ lastOp = "analyzeDatabaseSchema"
    /\ tablesFs \in fileSystems
    /\ databaseTables = analyzedDatabaseSchema(EmptyMap, tablesFs)
    /\ tableEvents = 0
    /\ IdleExcept("tables")
    /\ held = NoHeld
    /\ answer = NoAnswer
    /\ prevBuild = [NoBuilds EXCEPT !["tables"] = Built(databaseTables)]

InitTables == InitTablesOf(TableFileSystems)

\* the first migration file is created or changed
WriteSchemaFile ==
    /\ component = "tables"
    /\ UNCHANGED otherThanTables
    /\ tablesFs.dir
    /\ tableEvents < MaxEvents
    /\ \E c \in SchemaContents :
          /\ tablesFs.files[1] # File(c)
          /\ tablesFs' = [tablesFs EXCEPT !.files[1] = File(c)]
    /\ tableEvents' = tableEvents + 1
    /\ lastOp' = "write"
    /\ prevBuild' = [prevBuild EXCEPT !["tables"] = NoBuild]
    /\ UNCHANGED <<component, databaseTables, held>>

\* a migration file is saved with the content it had
TouchSchemaFile ==
    /\ component = "tables"
    /\ UNCHANGED otherThanTables
    /\ tableEvents < MaxEvents
    /\ \E f \in MigrationFileNames : tablesFs.files[f].exists
    /\ tableEvents' = tableEvents + 1
    /\ UNCHANGED <<component, lastOp, tablesFs, databaseTables, held, prevBuild>>

\* the first migration file is deleted
DeleteSchemaFile ==
    /\ component = "tables"
    /\ UNCHANGED otherThanTables
    /\ tableEvents < MaxEvents
    /\ tablesFs.files[1].exists
    /\ tablesFs' = [tablesFs EXCEPT !.files[1] = NoFile]
    /\ tableEvents' = tableEvents + 1
    /\ lastOp' = "delete"
    /\ prevBuild' = [prevBuild EXCEPT !["tables"] = NoBuild]
    /\ UNCHANGED <<component, databaseTables, held>>

\* migrationWatcher.onDidChange / onDidCreate / onDidDelete: analyzeDatabaseSchema()
analyzeDatabaseSchema ==
    /\ component = "tables"
    /\ UNCHANGED otherThanTables
    /\ tableEvents > 0
    /\ tableEvents' = tableEvents - 1
    /\ databaseTables' = analyzedDatabaseSchema(databaseTables, tablesFs)
    /\ lastOp' = "analyzeDatabaseSchema"
    /\ prevBuild' = [prevBuild EXCEPT !["tables"] = Rebuilt(@, databaseTables')]
    /\ held' = afterRebuild(held)
    /\ UNCHANGED <<component, tablesFs>>

\* a caller calls getDatabaseTables() and keeps the Map: this.databaseTables itself
CallGetDatabaseTables ==
    /\ component = "tables"
    /\ UNCHANGED otherThanTables
    /\ held = NoHeld
    /\ held' = Held("getDatabaseTables", "live", databaseTables)
    /\ UNCHANGED <<component, lastOp, tablesFs, databaseTables, tableEvents, prevBuild>>

NextTables ==
    \/ WriteSchemaFile
    \/ TouchSchemaFile
    \/ DeleteSchemaFile
    \/ analyzeDatabaseSchema
    \/ CallGetDatabaseTables

SpecTables == InitTables /\ [][NextTables]_vars

\* The provider on a workspace without migrations, asked for completions
InitRules ==
    /\ component = "rules"
    /\ lastOp = "analyzeDatabaseSchema"
    /\ IdleExcept("rules")
    /\ held = NoHeld
    /\ answer = NoAnswer
    /\ prevBuild = NoBuilds

\* the editor asks for completions with the cursor at the end of a line
CallProvideCompletionItems ==
    /\ component = "rules"
    /\ \E line \in DocumentLines :
          answer' = Answer("provideCompletionItems", line,
                           provideCompletionItems(BeforeCursor(line)))
    /\ UNCHANGED <<component, lastOp, routeVars, schemaVars, configVars, tableVars,
                   translationVars, held, prevBuild>>

\* isRuleApplicable(a, [b]) for two rule names
CallIsRuleApplicable ==
    /\ component = "rules"
    /\ \E a \in RuleNames, b \in RuleNames :
          answer' = Answer("isRuleApplicable", <<a, b>>, isRuleApplicable(a, << <<b>> >>))
    /\ UNCHANGED <<component, lastOp, routeVars, schemaVars, configVars, tableVars,
                   translationVars, held, prevBuild>>

\* createRuleInsertText for unique or exists: the table its snippet holds
CallGetParameterPlaceholder ==
    /\ component = "rules"
    /\ \E fieldName \in TableFieldNames :
          answer' = Answer("getParameterPlaceholder", fieldName,
                           getParameterPlaceholder(fieldName))
    /\ UNCHANGED <<component, lastOp, routeVars, schemaVars, configVars, tableVars,
                   translationVars, held, prevBuild>>

NextRules ==
    \/ CallProvideCompletionItems
    \/ CallIsRuleApplicable

SpecRules == InitRules /\ [][NextRules]_vars

\* The provider asked for the table of the snippets of unique and exists
SpecPlaceholders == InitRules /\ [][CallGetParameterPlaceholder]_vars

(***************************************************************************)
(* ValidationDiagnosticsProvider, ValidationCodeActionProvider: operations *)
(***************************************************************************)
\* database/migrations of the validated project: migrations of users and
\* posts, of users only, or no such directory
ValidationFileSystems ==
    {[dir |-> TRUE, listing |-> [i \in 1..MaxMigrations |-> i],
      files |-> [f \in MigrationFileNames |->
                    IF f = 1
                    THEN File(SchemaFile("users", <<Statement("id", None),
                                                    Statement("column", "email")>>))
                    ELSE later]] :
        later \in {NoFile,
                   File(SchemaFile("posts", <<Statement("id", "post_id"),
                                              Statement("softDeletes", None)>>))}}
    \cup {[dir |-> FALSE, listing |-> <<>>, files |-> [f \in MigrationFileNames |-> NoFile]]}

\* new LaravelValidationCompletionProvider(workspaceRoot), and the diagnostics
\* and code action providers constructed over it
InitValidation ==
    /\ component = "validation"
    /\ lastOp = "analyzeDatabaseSchema"
    /\ tablesFs \in ValidationFileSystems
    /\ databaseTables = analyzedDatabaseSchema(EmptyMap, tablesFs)
    /\ tableEvents = 0
    /\ IdleExcept("tables")
    /\ held = NoHeld
    /\ answer = NoAnswer
    /\ prevBuild = [NoBuilds EXCEPT !["tables"] = Built(databaseTables)]

\* onDidChangeTextDocument / onDidOpenTextDocument / onDidChangeActiveTextEditor
\* for a document that isValidationFile accepts: updateDiagnostics(document),
\* once per behaviour: it reads the document and the tables only
CallUpdateValidationDiagnostics ==
    /\ component = "validation"
    /\ answer.op = None
    /\ \E document \in ValidatedDocuments :
          answer' = Answer("updateValidationDiagnostics", document,
                           updateValidationDiagnostics(DocumentText(document),
                                                       databaseTables, 1))
    /\ UNCHANGED <<component, lastOp, routeVars, schemaVars, configVars, tableVars,
                   translationVars, held, prevBuild>>

\* provideCodeActions for one table-not-found diagnostic of the document:
\* createTableNotFoundActions(document, diagnostic)
CallCreateTableNotFoundActions ==
    /\ component = "validation"
    /\ answer.op = "updateValidationDiagnostics"
    /\ \E n \in 1..Len(answer.value) :
          /\ answer.value[n].code = "table-not-found"
          /\ answer' = Answer("createTableNotFoundActions", <<answer.args, answer.value[n]>>,
                              createTableNotFoundActions(DocumentText(answer.args),
                                                         answer.value[n], databaseTables))
    /\ UNCHANGED <<component, lastOp, routeVars, schemaVars, configVars, tableVars,
                   translationVars, held, prevBuild>>

NextValidation ==
    \/ CallUpdateValidationDiagnostics
    \/ CallCreateTableNotFoundActions

SpecValidation == InitValidation /\ [][NextValidation]_vars

(***************************************************************************)
(* TranslationProvider, TranslationDiagnosticsProvider: operations         *)
(***************************************************************************)
LangFileSystems ==
    {[f \in Range(LangFiles) |->
         CASE f = "lang/en" -> File(en)
           [] f = "lang/fr" -> fr
           [] OTHER -> resources] :
        en \in {<<"welcome">>, <<"welcome", "bye">>},
        fr \in {NoFile, File(<<"welcome">>), File(<<"bye">>)},
        resources \in {NoFile, File(<<"bye">>)}}

SourceFileSystems ==
    {[f \in Range(SourceFiles) |-> IF f = "HomeController.php" THEN php ELSE blade] :
        php \in {NoFile, File(<<Call("trans(", Welcome)>>),
                 File(<<Call("trans_choice(", Gone)>>)},
        blade \in {NoFile, File(<<Call("{{ __(", Bye), Call("@lang(", Welcome)>>),
                   File(<<Call("{{ trans(", Welcome)>>)}}

\* The entities of the translation index: the catalog, and the usages
\* whatever the order in which the two scans completed
UsageCount(uses, u) == Cardinality({i \in 1..Len(uses) : uses[i] = u})
TranslationEntities(map, uses) ==
    [translations |-> map, usages |-> [u \in Range(uses) |-> UsageCount(uses, u)]]

MaxScans == 2   \* findFiles requests of one glob outstanding at a time

\* scanForUsages(): one findFiles request per glob, answered later
started(s, clean) == [pending |-> [g \in Range(Globs) |-> s.pending[g] + 1], clean |-> clean]

\* new TranslationProvider(workspaceRoot): loadTranslations(), scanForUsages(),
\* setupWatchers(); the scans have not completed
InitTranslationsOf(langFileSystems, sourceFileSystems) ==
    /\ component = "translations"
    /\ lastOp = "loadTranslations"
    /\ langFs \in langFileSystems
    /\ sourceFs \in sourceFileSystems
    /\ translations = loadTranslations(EmptyMap, langFs, 1)
    /\ usages = <<>>
    /\ scans = started(NoScans, TRUE)
    /\ langEvents = 0
    /\ IdleExcept("translations")
    /\ held = NoHeld
    /\ answer = NoAnswer
    /\ prevBuild = NoBuilds

\* The contents with which lang/fr/messages.php is written while the
\* provider runs
WrittenLangContents == {<<"welcome">>}

\* lang/fr/messages.php is created or changed
WriteLangFile ==
    /\ component = "translations"
    /\ UNCHANGED otherThanTranslations
    /\ langEvents < MaxEvents
    /\ \E c \in WrittenLangContents :
          /\ langFs["lang/fr"] # File(c)
          /\ langFs' = [langFs EXCEPT !["lang/fr"] = File(c)]
    /\ langEvents' = langEvents + 1
    /\ lastOp' = "write"
    /\ prevBuild' = [prevBuild EXCEPT !["translations"] = NoBuild]
    /\ scans' = [scans EXCEPT !.clean = FALSE]
    /\ UNCHANGED <<component, sourceFs, translations, usages, held, answer>>

\* a translation file is saved with the content it had
TouchLangFile ==
    /\ component = "translations"
    /\ UNCHANGED otherThanTranslations
    /\ langEvents < MaxEvents
    /\ \E f \in Range(LangFiles) : langFs[f].exists
    /\ langEvents' = langEvents + 1
    /\ UNCHANGED <<component, lastOp, langFs, sourceFs, translations, usages, scans, held,
                   answer, prevBuild>>

\* lang/fr/messages.php is deleted
DeleteLangFile ==
    /\ component = "translations"
    /\ UNCHANGED otherThanTranslations
    /\ langEvents < MaxEvents
    /\ langFs["lang/fr"].exists
    /\ langFs' = [langFs EXCEPT !["lang/fr"] = NoFile]
    /\ langEvents' = langEvents + 1
    /\ lastOp' = "delete"
    /\ prevBuild' = [prevBuild EXCEPT !["translations"] = NoBuild]
    /\ scans' = [scans EXCEPT !.clean = FALSE]
    /\ UNCHANGED <<component, sourceFs, translations, usages, held, answer>>

\* watcher.onDidChange / onDidCreate / onDidDelete: reloadTranslations(), up to
\* the return of scanForUsages()
reloadTranslations ==
    /\ component = "translations"
    /\ UNCHANGED otherThanTranslations
    /\ langEvents > 0
    /\ \A g \in Range(Globs) : scans.pending[g] < MaxScans
    /\ langEvents' = langEvents - 1
    /\ translations' = loadTranslations(clear(translations), langFs, 1)
    /\ usages' = <<>>
    /\ scans' = started(scans, \A g \in Range(Globs) : scans.pending[g] = 0)
    /\ lastOp' = "reloadTranslations"
    /\ answer' = NoAnswer
    /\ held' = afterRebuild(held)
    /\ UNCHANGED <<component, langFs, sourceFs, prevBuild>>

\* the callback of one findFiles request of scanForUsages(): the files of the
\* glob are scanned.  When it is the last one outstanding of a reload that
\* started with none outstanding, the rebuild is complete.
findFilesThen ==
    /\ component = "translations"
    /\ UNCHANGED otherThanTranslations
    /\ \E g \in Range(Globs) :
          /\ scans.pending[g] > 0
          /\ LET index == scanFiles(TranslationIndex(translations, usages), g, sourceFs, 1)
                 left == [scans.pending EXCEPT ![g] = @ - 1]
                 done == \A h \in Range(Globs) : left[h] = 0
             IN  /\ translations' = index.translations
                 /\ usages' = index.usages
                 /\ scans' = [scans EXCEPT !.pending = left]
                 /\ prevBuild' =
                        IF done /\ scans.clean
                        THEN [prevBuild EXCEPT !["translations"] =
                                 Rebuilt(@, TranslationEntities(index.translations,
                                                                index.usages))]
                        ELSE prevBuild
    /\ lastOp' = "scanFileForUsages"
    /\ answer' = NoAnswer
    /\ UNCHANGED <<component, langFs, sourceFs, langEvents, held>>

\* a caller calls getUnusedTranslations()
CallGetUnusedTranslations ==
    /\ component = "translations"
    /\ UNCHANGED otherThanTranslations
    /\ held = NoHeld
    /\ answer' = Answer("getUnusedTranslations", <<>>, getUnusedTranslations(translations))
    /\ UNCHANGED <<component, lastOp, translationVars, held, prevBuild>>

\* a caller calls getMissingTranslations()
CallGetMissingTranslations ==
    /\ component = "translations"
    /\ UNCHANGED otherThanTranslations
    /\ held = NoHeld
    /\ answer' = Answer("getMissingTranslations", <<>>,
                        getMissingTranslations(translations, usages))
    /\ UNCHANGED <<component, lastOp, translationVars, held, prevBuild>>

\* a caller calls getAllTranslations() and keeps the Map: this.translations itself
CallGetAllTranslations ==
    /\ component = "translations"
    /\ UNCHANGED otherThanTranslations
    /\ held = NoHeld
    /\ answer = NoAnswer
    /\ held' = Held("getAllTranslations", "live", translations)
    /\ UNCHANGED <<component, lastOp, translationVars, answer, prevBuild>>

\* onDidOpenTextDocument / onDidChangeTextDocument / onDidChangeActiveTextEditor
\* for a source file: updateDiagnostics(document)
CallUpdateDiagnostics ==
    /\ component = "translations"
    /\ UNCHANGED otherThanTranslations
    /\ held = NoHeld
    /\ \E f \in Range(SourceFiles) :
          /\ sourceFs[f].exists
          /\ answer' = Answer("updateDiagnostics", f,
                              updateDiagnostics(translations, sourceFs[f].content))
    /\ UNCHANGED <<component, lastOp, translationVars, held, prevBuild>>

\* The catalog as constructed, while its two scans complete
NextCatalog ==
    \/ findFilesThen
    \/ CallGetUnusedTranslations
    \/ CallGetMissingTranslations
    \/ CallGetAllTranslations
    \/ CallUpdateDiagnostics

SpecCatalog == InitTranslationsOf(LangFileSystems, SourceFileSystems) /\ [][NextCatalog]_vars

\* The catalog while translation files are written and deleted
WrittenLangFileSystems ==
    {fs \in LangFileSystems :
        /\ fs["lang/en"] = File(<<"welcome", "bye">>)
        /\ fs["lang/fr"] \in {NoFile, File(<<"welcome">>)}
        /\ ~fs["resources/lang/en"].exists}

ScannedFileSystems ==
    {fs \in SourceFileSystems :
        /\ fs["HomeController.php"] = File(<<Call("trans(", Welcome)>>)
        /\ fs["home.blade.php"] \in {NoFile, File(<<Call("{{ trans(", Welcome)>>)}}

InitTranslations == InitTranslationsOf(WrittenLangFileSystems, ScannedFileSystems)

NextTranslations ==
    \/ WriteLangFile
    \/ TouchLangFile
    \/ DeleteLangFile
    \/ reloadTranslations
    \/ findFilesThen
    \/ CallGetUnusedTranslations
    \/ CallGetAllTranslations
    \/ CallUpdateDiagnostics

SpecTranslations == InitTranslations /\ [][NextTranslations]_vars

(***************************************************************************)
(* The providers over files whose read throws                              *)
(***************************************************************************)
\* The files of a directory: each is read, throws when read, or is not there
FilesOrFailures(contents) == {File(c) : c \in contents} \cup {Unreadable, NoFile}

InitFailures ==
    \/ InitRoutesOver(FilesOrFailures({<<GetUsers>>, <<GroupAdmin, ResourcePhotos>>}),
                      FilesOrFailures({<<PostPosts>>}))
    \/ InitSchemaOf(
           {[listing |-> [i \in 1..MaxMigrations |-> i],
             migrations |-> [f \in MigrationFileNames |-> IF f = 1 THEN first ELSE later],
             model |-> c] :
               first \in FilesOrFailures({Migration("orders", <<StatusString>>, <<>>)}),
               later \in FilesOrFailures({Migration("orders", <<StatusNullable>>, <<>>)}),
               c \in FilesOrFailures(WrittenModels)})
    \/ InitConfigOf(
           {[dir |-> TRUE,
             files |-> [f \in Range(ConfigFileNames) |->
                           CASE f = "app.php" -> app
                             [] f = "mail.php" -> mail
                             [] OTHER -> File(<< <<"name">> >>)],
             env |-> [f \in Range(EnvFileNames) |->
                         CASE f = ".env" -> env
                           [] f = ".env.local" -> local
                           [] OTHER -> NoFile]] :
               app \in FilesOrFailures({<< <<"name">> >>}),
               mail \in FilesOrFailures({<< <<"from", "address">> >>}),
               env \in FilesOrFailures({<< <<"MY_KEY", Equals, "x">> >>}),
               local \in FilesOrFailures({<< <<"APP_NAME", Equals, "Laravel">> >>})})
    \/ InitTablesOf(
           {[dir |-> TRUE, listing |-> [i \in 1..MaxMigrations |-> i],
             files |-> [f \in MigrationFileNames |-> IF f = 1 THEN first ELSE later]] :
               first \in FilesOrFailures(
                             {SchemaFile("users", <<Statement("column", "name")>>)}),
               later \in FilesOrFailures(
                             {SchemaFile("posts", <<Statement("id", "post_id")>>)})})
    \/ InitTranslationsOf(
           {[f \in Range(LangFiles) |->
                CASE f = "lang/en" -> en
                  [] f = "lang/fr" -> fr
                  [] OTHER -> NoFile] :
               en \in FilesOrFailures({<<"welcome">>}),
               fr \in FilesOrFailures({<<"welcome">>, <<"bye">>})},
           {[f \in Range(SourceFiles) |-> IF f = "HomeController.php" THEN php ELSE blade] :
               php \in FilesOrFailures({<<Call("trans(", Welcome)>>}),
               blade \in FilesOrFailures({<<Call("{{ __(", Bye)>>})})

NextFailures ==
    \/ NextRouteParse
    \/ NextSchemaParse
    \/ NextConfigParse
    \/ TouchSchemaFile
    \/ analyzeDatabaseSchema
    \/ CallGetDatabaseTables
    \/ TouchLangFile
    \/ reloadTranslations
    \/ NextCatalog

SpecFailures == InitFailures /\ [][NextFailures]_vars

(***************************************************************************)
(* The providers together                                                  *)
(***************************************************************************)
Init ==
    \/ InitRoutes
    \/ InitSchema
    \/ InitConfig
    \/ InitTables
    \/ InitTranslations
    \/ InitRules
    \/ InitValidation

Next ==
    \/ NextRoutes
    \/ NextSchema
    \/ NextConfig
    \/ NextTables
    \/ NextTranslations
    \/ NextRules
    \/ NextValidation

Spec == Init /\ [][Next]_vars



(***************************************************************************)
(* Claims about the route index                                            *)
(***************************************************************************)
\* The Route::group lines that are open after the first n lines of a file
RECURSIVE OpenGroups(_, _)
OpenGroups(lines, n) ==
    IF n = 0 THEN <<>>
    ELSE LET open == OpenGroups(lines, n - 1)
         IN  IF lines[n].kind = "group" THEN Append(open, lines[n])
             ELSE IF lines[n].kind = "close" /\ Len(open) > 0
                  THEN SubSeq(open, 1, Len(open) - 1)
                  ELSE open

\* s with every run of '/' collapsed to one '/'
RECURSIVE CollapseSlashes(_)
CollapseSlashes(s) ==
    IF Len(s) < 2 THEN s
    ELSE IF s[1] = Slash /\ s[2] = Slash THEN CollapseSlashes(Tail(s))
         ELSE <<s[1]>> \o CollapseSlashes(Tail(s))

UriSuffix(line) == IF line.shape = "resource" THEN <<Slash, "{id?}">> ELSE <<>>

\* Every indexed route was declared by the line of its file that it names
RoutesAreOfCurrentFiles ==
    \A i \in 1..Len(routes) : \A j \in 1..Len(routes[i].v) :
        LET r == routes[i].v[j]
        IN  /\ routeFs.dir
            /\ routeFs.files[r.filePath].exists
            /\ r.line <= Len(routeFs.files[r.filePath].content)

\* C1: a route declared inside one Route::group whose attributes set
\* 'prefix' => P is indexed with the uri P + '/' + declared uri, duplicated
\* '/' collapsed to one; a route declared outside any group is indexed with
\* its declared uri.
C1_PrefixMerged ==
    (component = "routes" /\ RoutesAreOfCurrentFiles) =>
        \A i \in 1..Len(routes) : \A j \in 1..Len(routes[i].v) :
            LET r == routes[i].v[j]
                lines == routeFs.files[r.filePath].content
                line == lines[r.line]
                open == OpenGroups(lines, r.line - 1)
            IN  /\ open = <<>> => r.uri = line.uri \o UriSuffix(line)
                /\ (Len(open) = 1 /\ open[1].prefix # <<>>) =>
                       r.uri = CollapseSlashes(open[1].prefix \o <<Slash>> \o line.uri)
                               \o UriSuffix(line)

(***************************************************************************)
(* Claims about the model and migration index                              *)
(***************************************************************************)
FieldsOf(migs, table) == IF MapHas(migs, table) THEN MapGet(migs, table) ELSE <<>>

HasField(fields, name) == fieldIndex(fields, name) > 0

\* The field a lookup by name finds: the first of that name
Resolved(fields, name) == fields[fieldIndex(fields, name)]

SameColumn(field, column) ==
    /\ field.type = column.type
    /\ field.nullable = column.nullable
    /\ field.default = column.default

FieldNames ==
    {"title", "status", "secret", "flag", "id", "created_at", "updated_at"}

\* The models index was built from the model file and this.migrations as
\* they are now
ModelsCurrent == component = "schema" /\ prevBuild["models"].fresh

CastOf(file, name) ==
    LET IsCast(c) == c.field = name
        Last(i) == /\ IsCast(file.casts[i])
                   /\ \A j \in (i + 1)..Len(file.casts) : ~IsCast(file.casts[j])
    IN  file.casts[CHOOSE i \in 1..Len(file.casts) : Last(i)].cast

\* C2: for every model and every field name that is a column of the model's
\* table in the migration map, the resolved field has the migration column's
\* type, nullable and default whatever $fillable, $hidden and $casts say; a
\* field in $casts and not in the migrations has the cast's type; a field only
\* in $fillable or $hidden is string and non-null.
C2_MigrationWins ==
    ModelsCurrent =>
        \A i \in 1..Len(models) :
            LET model == models[i].v
                file == schemaFs.model.content
                columns == FieldsOf(migrations, model.table)
                cast == {file.casts[k].field : k \in 1..Len(file.casts)}
                listed == Range(file.fillable) \cup Range(file.hidden)
            IN  \A name \in FieldNames :
                    /\ HasField(columns, name) =>
                           /\ HasField(model.fields, name)
                           /\ SameColumn(Resolved(model.fields, name),
                                         Resolved(columns, name))
                    /\ (name \in cast /\ ~HasField(columns, name)) =>
                           /\ HasField(model.fields, name)
                           /\ Resolved(model.fields, name).type =
                                  castToType(CastOf(file, name))
                    /\ (name \in listed \ cast /\ ~HasField(columns, name)) =>
                           /\ HasField(model.fields, name)
                           /\ Resolved(model.fields, name).type = "string"
                           /\ Resolved(model.fields, name).nullable = FALSE

\* C2, its case: $fillable = ['title'], 'title' => 'integer' in $casts, a
\* migration column title that is string and nullable, and the resolved field
\* string and nullable
C2_Witness ==
    /\ ModelsCurrent
    /\ schemaFs.model.exists
    /\ schemaFs.model.content.fillable = <<"title">>
    /\ schemaFs.model.content.casts = <<Cast("title", "integer")>>
    /\ MapHas(models, ModelName)
    /\ LET model == MapGet(models, ModelName)
       IN  /\ HasField(FieldsOf(migrations, model.table), "title")
           /\ Resolved(FieldsOf(migrations, model.table), "title").type = "string"
           /\ Resolved(FieldsOf(migrations, model.table), "title").nullable
           /\ Resolved(model.fields, "title").type = "string"
           /\ Resolved(model.fields, "title").nullable

\* C3: once a notification of the migration watcher has been handled, every
\* model reports, for every column of its table, the type and nullability the
\* current migrations give it, with no model-file notification needed.
C3_ModelsFollowMigrations ==
    (component = "schema" /\ lastOp = "analyzeMigrations") =>
        \A i \in 1..Len(models) :
            LET model == models[i].v
                columns == FieldsOf(migrations, model.table)
            IN  \A name \in FieldNames :
                    HasField(columns, name) =>
                        /\ HasField(model.fields, name)
                        /\ Resolved(model.fields, name).type = Resolved(columns, name).type
                        /\ Resolved(model.fields, name).nullable =
                               Resolved(columns, name).nullable

\* The migration files of a table, and what they say about a column
FilesOf(table) ==
    {f \in MigrationFileNames :
        /\ schemaFs.migrations[f].exists
        /\ schemaFs.migrations[f].content.table = table}

StatesColumn(f, name) ==
    \E k \in 1..Len(schemaFs.migrations[f].content.columns) :
        schemaFs.migrations[f].content.columns[k].name = name

SpecialColumns(method) ==
    CASE method = "timestamps" -> {"created_at", "updated_at"}
      [] method = "softDeletes" -> {"deleted_at"}
      [] method = "rememberToken" -> {"remember_token"}
      [] OTHER -> {}

ExpandsTo(f, name) ==
    \E k \in 1..Len(schemaFs.migrations[f].content.specials) :
        name \in SpecialColumns(schemaFs.migrations[f].content.specials[k])

Max(S) == CHOOSE x \in S : \A y \in S : y <= x

\* The field the last column statement for name in file f defines
StatedField(f, name) ==
    LET columns == schemaFs.migrations[f].content.columns
        last == Max({k \in 1..Len(columns) : columns[k].name = name})
    IN  Field(name, migrationTypeToType(columns[last].verb), columns[last].nullable,
              columns[last].default)

\* The field a convenience call defines
ExpandedField(name) ==
    Field(name, IF name = "remember_token" THEN "string" ELSE "timestamp", TRUE, None)

\* The definitions file f gives for a column
DefinitionsIn(f, name) ==
    (IF StatesColumn(f, name) THEN {StatedField(f, name)} ELSE {})
    \cup (IF ExpandsTo(f, name) THEN {ExpandedField(name)} ELSE {})

MigrationColumnNames == FieldNames \cup {"deleted_at", "remember_token"}

\* this.migrations was built from the migration files as they are now
MigrationsCurrent == component = "schema" /\ prevBuild["migrations"].fresh

\* Every model field that is a column of the model's table has the column's
\* type and nullability
ModelFieldsFollow ==
    \A i \in 1..Len(models) :
        LET model == models[i].v
            columns == FieldsOf(migrations, model.table)
        IN  \A name \in MigrationColumnNames :
                HasField(columns, name) =>
                    /\ HasField(model.fields, name)
                    /\ Resolved(model.fields, name).type = Resolved(columns, name).type
                    /\ Resolved(model.fields, name).nullable = Resolved(columns, name).nullable

\* C4 as stated: for every table and column, the definition of the last file,
\* in ascending file name order, that declares the column (by a column
\* statement or by a convenience call that expands to it) is the one in the
\* migration map, and the model field follows it.
C4_LastFileWins ==
    (MigrationsCurrent /\ ModelsCurrent) =>
        /\ \A table \in TableNames, name \in MigrationColumnNames :
              LET declaring == {f \in FilesOf(table) : DefinitionsIn(f, name) # {}}
                  columns == FieldsOf(migrations, table)
              IN  IF declaring = {} THEN ~HasField(columns, name)
                  ELSE /\ HasField(columns, name)
                       /\ Resolved(columns, name) \in DefinitionsIn(Max(declaring), name)
        /\ ModelFieldsFollow

\* C4 as amended: for every table and column, the last column statement
\* $table->verb('column') of the last file, in ascending file name order, that
\* has one is the definition in the migration map; a column that only
\* convenience calls (timestamps, softDeletes, rememberToken) expand to is a
\* nullable timestamp (remember_token: string); the model field follows the
\* migration map.
C4_LastStatementWins ==
    (MigrationsCurrent /\ ModelsCurrent) =>
        /\ \A table \in TableNames, name \in MigrationColumnNames :
              LET stating == {f \in FilesOf(table) : StatesColumn(f, name)}
                  expanding == {f \in FilesOf(table) : ExpandsTo(f, name)}
                  columns == FieldsOf(migrations, table)
              IN  IF stating # {}
                  THEN /\ HasField(columns, name)
                       /\ Resolved(columns, name) = StatedField(Max(stating), name)
                  ELSE IF expanding # {}
                  THEN /\ HasField(columns, name)
                       /\ Resolved(columns, name) = ExpandedField(name)
                  ELSE ~HasField(columns, name)
        /\ \A table \in TableNames : MapHas(migrations, table) <=> FilesOf(table) # {}
        /\ ModelFieldsFollow

\* C4, its case: two migrations of orders, listed by the directory in
\* descending order, the first stating status as string and non-null, the
\* second as nullable; the migration column and the model field are nullable
C4_Witness ==
    /\ MigrationsCurrent /\ ModelsCurrent
    /\ schemaFs.listing[1] = 2
    /\ schemaFs.migrations[1] = File(Migration("orders", <<StatusString>>, <<>>))
    /\ schemaFs.migrations[2] = File(Migration("orders", <<StatusNullable>>, <<>>))
    /\ Resolved(FieldsOf(migrations, "orders"), "status").nullable
    /\ MapHas(models, ModelName)
    /\ Resolved(MapGet(models, ModelName).fields, "status").nullable


(***************************************************************************)
(* Claims about rebuilds and lookups                                       *)
(***************************************************************************)
\* C5: when an extractor's rebuild (parseAllRoutes, analyzeMigrations,
\* analyzeModels, loadConfigKeys, loadEnvKeys, analyzeDatabaseSchema,
\* reloadTranslations with both of its usage scans completed) runs again over
\* files unchanged since its last run, the index it leaves has the entities
\* the last run left: none added, lost or duplicated.
C5_RebuildIdempotent ==
    \A x \in Extractors : prevBuild[x].again => prevBuild[x].index = prevBuild[x].before

\* C5, its case: reloadTranslations has run to the completion of its scans a
\* second time over unchanged files, with a catalog and usages to rebuild
C5_Witness ==
    /\ component = "translations"
    /\ prevBuild["translations"].again
    /\ translations # EmptyMap
    /\ usages # <<>>

\* What a caller who kept the value of a lookup finds in it now: the
\* provider's container as it is now when the lookup returned the container
\* itself, the value as it was returned otherwise
View(h) ==
    CASE h.ref = "live" /\ h.getter = "getAllTranslations" -> translations
      [] h.ref = "live" /\ h.getter = "getConfigKeys" -> configKeys
      [] h.ref = "live" /\ h.getter = "getEnvKeys" -> envKeys
      [] h.ref = "live" /\ h.getter = "getDatabaseTables" -> databaseTables
      [] OTHER -> h.value

\* C6: the value a lookup (getAllTranslations, getConfigKeys, getEnvKeys,
\* getDatabaseTables, getAllRoutes, getAllModels, getRoutesForController)
\* returned has, after any later rebuild, the contents it had when returned.
C6_LookupsAreSnapshots == held.rebuilt => View(held) = held.value

\* The keys the translation calls of the scanned project files refer to
UsedKeys ==
    UNION {{sourceFs[f].content[i].key : i \in 1..Len(sourceFs[f].content)} :
             f \in {g \in Range(SourceFiles) : sourceFs[g].exists}}

\* C7: whenever it is called, between reloadTranslations, the completions of
\* its scans and other calls, getUnusedTranslations returns no entry whose
\* key a translation call of a scanned project file refers to.
C7_UnusedAreUnreferenced ==
    answer.op = "getUnusedTranslations" =>
        \A i \in 1..Len(answer.value) : answer.value[i].key \notin UsedKeys

\* C8: when 'required' is among the rules written for the field of the line,
\* the completions offered do not include 'nullable'; when 'nullable' is among
\* them, they do not include 'required'.
C8_RequiredExcludesNullable ==
    answer.op = "provideCompletionItems" =>
        LET applied == AppliedRules(answer.args)
            offered == Range(answer.value)
        IN  /\ "required" \in applied => "nullable" \notin offered
            /\ "nullable" \in applied => "required" \notin offered

\* C9: for every two rule names a and b, isRuleApplicable(a, [b]) is false
\* exactly when isRuleApplicable(b, [a]) is false.
C9_CompatibilityIsSymmetric ==
    answer.op = "isRuleApplicable" =>
        answer.value = isRuleApplicable(answer.args[2], << <<answer.args[1]>> >>)

\* C9, its case: a pair the table lists in one direction only, required
\* listing sometimes: sometimes is not applicable where required is written
C9_Witness ==
    /\ answer.op = "isRuleApplicable"
    /\ answer.args = <<"sometimes", "required">>
    /\ answer.value = FALSE

\* The locales of the entries of a key, and of all entries
LocalesOfKey(key) ==
    {MapGet(translations, key)[j].locale : j \in 1..Len(MapGet(translations, key))}
ObservedLocales ==
    UNION {{translations[i].v[j].locale : j \in 1..Len(translations[i].v)} :
             i \in 1..Len(translations)}

\* C10: for every translation call of the document whose key k has a catalog
\* entry, updateDiagnostics reports an incomplete-translation diagnostic that
\* lists exactly the observed locales without an entry for k, each once, and
\* reports nothing for the call when there is no such locale.
C10_IncompleteLocales ==
    answer.op = "updateDiagnostics" =>
        LET content == sourceFs[answer.args].content
            diagnostics == answer.value
        IN  \A i \in 1..Len(content) :
                LET k == content[i].key
                    missing == ObservedLocales \ LocalesOfKey(k)
                    reported == {n \in 1..Len(diagnostics) : diagnostics[n].range[1] = i}
                IN  MapHas(translations, k) =>
                        /\ missing # {} <=> reported # {}
                        /\ \A n \in reported :
                              /\ diagnostics[n].code = "incomplete-translation"
                              /\ diagnostics[n].key = k
                              /\ Range(diagnostics[n].locales) = missing
                              /\ Len(diagnostics[n].locales) = Cardinality(missing)

\* C10, its case: messages.welcome has an entry in en and none in fr, fr is
\* observed through messages.bye, and the call trans('messages.welcome') is
\* reported incomplete for fr only
C10_Witness ==
    /\ answer.op = "updateDiagnostics"
    /\ MapHas(translations, Welcome) /\ MapHas(translations, Bye)
    /\ LocalesOfKey(Welcome) = {"en"}
    /\ "fr" \in LocalesOfKey(Bye)
    /\ \E n \in 1..Len(answer.value) :
          /\ answer.value[n].code = "incomplete-translation"
          /\ answer.value[n].key = Welcome
          /\ answer.value[n].locales = <<"fr">>

(***************************************************************************)
(* Claims about the validation diagnostics                                 *)
(***************************************************************************)
\* The tables the migrations of the project create
DefinedTables ==
    {tablesFs.files[f].content.create :
        f \in {g \in MigrationFileNames : tablesFs.files[g].exists}} \ {None}

\* the diagnostics of answer that are on line i (from 0) with that code and subject
Flagged(diagnostics, i, code, subject) ==
    \E n \in 1..Len(diagnostics) :
        /\ diagnostics[n].line = i
        /\ diagnostics[n].code = code
        /\ diagnostics[n].subject = subject

\* C11: every rule exists:T or unique:T of a validated document whose table T
\* no migration defines gets a table-not-found diagnostic on its line, alone
\* or in a 'field' => 'rule|rule' line, and every table offered as replacement
\* for such a diagnostic is a table the migrations define.
C11_UnknownTablesFlagged ==
    /\ answer.op = "updateValidationDiagnostics" =>
          \A i \in 1..Len(answer.args) :
              LET rule == answer.args[i].rule
              IN  (/\ Len(rule) >= 3
                   /\ rule[1] \in {"exists", "unique"}
                   /\ rule[3] \notin DefinedTables)
                  => Flagged(answer.value, i - 1, "table-not-found", <<rule[3]>>)
    /\ answer.op = "createTableNotFoundActions" =>
          \A n \in 1..Len(answer.value) : answer.value[n].table \in DefinedTables

\* C12: every rule name of a validated document that the catalog does not have
\* gets an unknown-rule diagnostic on its line, in the 'a|b' form and in the
\* ['a', 'b'] form.
C12_UnknownRulesFlagged ==
    answer.op = "updateValidationDiagnostics" =>
        \A i \in 1..Len(answer.args) :
            LET rule == answer.args[i].rule
            IN  rule[1] \notin Range(validationRules)
                => Flagged(answer.value, i - 1, "unknown-rule", <<rule[1]>>)

(***************************************************************************)
(* Claims about the fields of a model                                      *)
(***************************************************************************)
\* C13: in every model of the index no two fields have the same name, whatever
\* $fillable (a name repeated in it included), $hidden, $casts and the
\* migration columns are.
C13_FieldNamesUnique ==
    \A i \in 1..Len(models) :
        LET fields == models[i].v.fields
        IN  \A a, b \in 1..Len(fields) : fields[a].name = fields[b].name => a = b

DefaultFieldNames == {"id", "created_at", "updated_at"}

DefaultType(name) == IF name = "id" THEN "integer" ELSE "datetime"

TypeVocabulary ==
    {"integer", "string", "boolean", "float", "decimal", "date", "datetime", "timestamp",
     "json", "array", "collection", "object", "binary"}

\* C15: the type of every field of every model of the index, whatever cast or
\* migration column verb it comes from, is one of integer, string, boolean,
\* float, decimal, date, datetime, timestamp, json, array, collection, object,
\* binary.
C15_TypesInVocabulary ==
    \A i \in 1..Len(models) :
        \A k \in 1..Len(models[i].v.fields) : models[i].v.fields[k].type \in TypeVocabulary

\* The config names of the table commonKeys
CommonConfigNames ==
    {"app", "database", "cache", "mail", "session", "queue", "auth", "services"}

\* The keys addCommonConfigKeys can add, over all the names of its table
WellKnownConfigKeys ==
    UNION {{<<name>> \o key : key \in Range(commonKeys(name))} : name \in CommonConfigNames}

\* The keys addCommonEnvKeys adds, each as this.envKeys holds it
WellKnownEnvKeys == {<<key>> : key \in Range(commonEnvKeys)}

\* C16: after every loadConfigKeys and loadEnvKeys, at construction and after
\* a watcher event, configKeys holds every well-known config key (app.name,
\* database.default, ...) and envKeys every well-known env key (APP_NAME, ...),
\* whatever the config directory and the env files hold
C16_WellKnownKeysPresent ==
    (component = "config" /\ lastOp \in {"loadConfigKeys", "loadEnvKeys"}) =>
        /\ WellKnownConfigKeys \subseteq Range(configKeys)
        /\ WellKnownEnvKeys \subseteq Range(envKeys)

\* addCommonEnvKeys runs at the end of every loadEnvKeys: its keys are there
EnvKeysAreSeeded ==
    (component = "config" /\ lastOp \in {"loadConfigKeys", "loadEnvKeys"}) =>
        WellKnownEnvKeys \subseteq Range(envKeys)

\* The places <<i, j>> of this.routes that hold a route of line k of file f
IndexedAt(f, k) ==
    {p \in {<<i, j>> : i \in 1..Len(routes), j \in 1..MaxLines + 1} :
        /\ p[2] <= Len(routes[p[1]].v)
        /\ routes[p[1]].v[p[2]].filePath = f
        /\ routes[p[1]].v[p[2]].line = k}

\* The lines of the route files that declare a resource: <<file, line number>>
ResourceDeclarations ==
    {d \in Range(RouteFileNames) \X (1..MaxLines + 1) :
        /\ routeFs.dir
        /\ routeFs.files[d[1]].exists
        /\ d[2] <= Len(routeFs.files[d[1]].content)
        /\ routeFs.files[d[1]].content[d[2]].kind = "route"
        /\ routeFs.files[d[1]].content[d[2]].shape = "resource"}

\* one indexed route per resource declaration, with the five methods and no
\* others, and the uri that uriOf gives for the declaration
ResourceRoutesHave(uriOf(_, _)) ==
    \A d \in ResourceDeclarations :
        LET lines == routeFs.files[d[1]].content
        IN  /\ Cardinality(IndexedAt(d[1], d[2])) = 1
            /\ \A p \in IndexedAt(d[1], d[2]) :
                  LET r == routes[p[1]].v[p[2]]
                  IN  /\ Range(r.method) = {"GET", "POST", "PUT", "PATCH", "DELETE"}
                      /\ Len(r.method) = 5
                      /\ r.uri = uriOf(lines, d[2]) \o <<Slash, "{id?}">>

\* the declared uri of line k, under the prefix of the one group that is open
\* there (a declaration in nested groups: under the prefix the code merges)
PrefixMergedUri(lines, k) ==
    LET open == OpenGroups(lines, k - 1)
    IN  IF Len(open) = 1 /\ open[1].prefix # <<>>
        THEN CollapseSlashes(open[1].prefix \o <<Slash>> \o lines[k].uri)
        ELSE lines[k].uri

DeclaredUri(lines, k) == lines[k].uri

\* C17: every Route::resource or Route::apiResource declaration with a
\* ::class controller yields exactly one indexed route, whose methods are
\* exactly GET, POST, PUT, PATCH, DELETE and whose uri is the prefix-merged
\* declared uri followed by '/{id?}'
C17_ResourceRoutes ==
    component = "routes" => ResourceRoutesHave(PrefixMergedUri)

\* The same with the declared uri as it is written, whatever group is open
ResourceRoutesKeepDeclaredUri ==
    component = "routes" => ResourceRoutesHave(DeclaredUri)

\* the elements of s in the order of their first places
RECURSIVE Distinct(_)
Distinct(s) ==
    IF s = <<>> THEN <<>>
    ELSE LET front == Distinct(SubSeq(s, 1, Len(s) - 1))
         IN  IF s[Len(s)] \in Range(front) THEN front ELSE Append(front, s[Len(s)])

\* C without its trailing 'Controller'
WithoutSuffix(controllerName) ==
    IF EndsWith(controllerName, <<Ctl>>)
    THEN SubSeq(controllerName, 1, Len(controllerName) - 1)
    ELSE controllerName

\* the routes this.routes holds, at any place of any list
IndexedRoutes == UNION {Range(routes[i].v) : i \in 1..Len(routes)}

\* the lookups of C18 for the routes of the controllers in names: by the
\* route's controller, by it without the suffix, and by it with the suffix
\* added
LookupsContain(names) ==
    \A r \in IndexedRoutes :
        (r.controller \in names /\ r.controllerMethod # None) =>
            LET C == r.controller
                m == r.controllerMethod
            IN  /\ r \in Range(getRoutesForController(controllerRoutes, C, m))
                /\ r \in Range(getRoutesForController(controllerRoutes, WithoutSuffix(C), m))
                /\ ~EndsWith(C, <<Ctl>>) =>
                       r \in Range(getRoutesForController(controllerRoutes, C \o <<Ctl>>, m))

\* the keys of a lookup by a name are the keys under which the index puts a
\* route of that name, in their order, and the lookup returns the list of
\* the first of them that has routes
LookupsFollowIndexOrder(names) ==
    \A C \in names, m \in MethodNames :
        /\ Distinct(possibleKeys(C, m))
               = Distinct(controllerKeys([controller |-> C, controllerMethod |-> m]))
        /\ getRoutesForController(controllerRoutes, C, m)
               = firstNonEmpty(controllerRoutes, Distinct(possibleKeys(C, m)), 1)

LookupsFind(names) == LookupsContain(names) /\ LookupsFollowIndexOrder(names)

\* C18: for every indexed route with controller C and method m,
\* getRoutesForController returns a list containing the route when called
\* with (C, m), with (C without its trailing 'Controller', m) and, when C
\* lacks the suffix, with (C + 'Controller', m); the lookup tries the
\* candidate keys in the order buildControllerRouteMap generates them and
\* returns the list of the first key that has routes
C18_LookupsFindRoutes ==
    component = "routes" => LookupsFind(ControllerNames)

\* The controller names in which 'Controller' stands at the end only
SuffixOnlyNames == {C \in ControllerNames : ~includes(WithoutSuffix(C), Ctl)}

\* The same for the controllers in whose names 'Controller' is the suffix only
LookupsFindSuffixOnlyNames ==
    component = "routes" => LookupsFind(SuffixOnlyNames)

(***************************************************************************)
(* Claims about files whose read throws                                    *)
(***************************************************************************)
\* the file as a rebuild finds it when the file that throws is not there
readable(file) == IF file.throws THEN NoFile ELSE file
readableFiles(files) == [f \in DOMAIN files |-> readable(files[f])]

\* the usage index of a completed build over the files lang and source
BuiltTranslations(lang, source) ==
    LET loaded == TranslationIndex(loadTranslations(EmptyMap, lang, 1), <<>>)
        first == CHOOSE index \in {scanFiles(loaded, Globs[1], source, 1)} : TRUE
        scanned == CHOOSE index \in {scanFiles(first, Globs[2], source, 1)} : TRUE
    IN  TranslationEntities(scanned.translations, scanned.usages)

\* C19: when reading a route, model, migration, translation, config or env
\* file throws during a rebuild, the rebuild runs to its end and leaves the
\* index that the other files give: the index is the one a rebuild leaves
\* when the failing files are absent
C19_FailuresAreIsolated ==
    /\ component = "routes" =>
           /\ routes = parsedRoutes(EmptyMap, [routeFs EXCEPT !.files = readableFiles(routeFs.files)])
           /\ controllerRoutes = buildControllerRouteMap(routes)
    /\ component = "schema" =>
           LET present == [schemaFs EXCEPT
                               !.migrations = readableFiles(schemaFs.migrations),
                               !.model = readable(schemaFs.model)]
           IN  /\ migrations = analyzedMigrations(present)
               /\ models = analyzedModels(migrations, present)
    /\ component = "config" =>
           LET present == [configFs EXCEPT !.files = readableFiles(configFs.files),
                                           !.env = readableFiles(configFs.env)]
           IN  /\ configKeys = loadedConfigKeys(<<>>, present)
               /\ envKeys = loadedEnvKeys(<<>>, present)
    /\ component = "tables" =>
           databaseTables
               = analyzedDatabaseSchema(
                     EmptyMap, [tablesFs EXCEPT !.files = readableFiles(tablesFs.files)])
    /\ (/\ component = "translations"
        /\ scans.clean
        /\ \A g \in Range(Globs) : scans.pending[g] = 0) =>
           TranslationEntities(translations, usages)
               = BuiltTranslations(readableFiles(langFs), readableFiles(sourceFs))

\* a watcher's rebuild has run over routes/api.php, which is read, and
\* routes/web.php, whose read throws, and the routes of api.php are indexed
C19_Witness ==
    /\ component = "routes"
    /\ prevBuild["routes"].again
    /\ routeFs.files["web.php"].throws
    /\ routeFs.files["api.php"] = File(<<PostPosts>>)
    /\ Len(routes) = 1

\* the routes a parse of file f alone produces
RoutesOfFile(f) ==
    LET alone == parseRouteFile(EmptyMap, f, routeFs)
    IN  IF MapHas(alone, f) THEN MapGet(alone, f) ELSE <<>>

\* C20: after parseAllRoutes returns, every route stored under key f of
\* this.routes has filePath = f and the list under f is exactly what the
\* latest parse of f produced; no route of an earlier parse, of a deleted
\* file or of a routes directory that is gone is left in this.routes or in
\* this.controllerRoutes
C20_RoutesAreOfLatestParse ==
    component = "routes" =>
        /\ \A i \in 1..Len(routes) : \A j \in 1..Len(routes[i].v) :
              routes[i].v[j].filePath = routes[i].k
        /\ \A i \in 1..Len(controllerRoutes) :
              Range(controllerRoutes[i].v) \subseteq IndexedRoutes
        /\ lastOp = "parseAllRoutes" =>
              /\ Len(routes) = Cardinality(MapKeys(routes))
              /\ MapKeys(routes) =
                     {f \in Range(RouteFileNames) :
                         routeFs.dir /\ routeFs.files[f].exists /\ RoutesOfFile(f) # <<>>}
              /\ \A i \in 1..Len(routes) : routes[i].v = RoutesOfFile(routes[i].k)
              /\ controllerRoutes = buildControllerRouteMap(routes)

\* a caller was given routes, the routes directory was removed, and the
\* rebuild that followed has left both Maps empty
C20_Witness ==
    /\ component = "routes"
    /\ lastOp = "parseAllRoutes"
    /\ ~routeFs.dir
    /\ held.getter = "getAllRoutes"
    /\ Len(held.value) > 0
    /\ held.rebuilt
    /\ routes = EmptyMap
    /\ controllerRoutes = EmptyMap

(***************************************************************************)
(* Claims about translation usage                                          *)
(***************************************************************************)
\* C21: usage is locale-agnostic: once scanFileForUsages has recorded a usage
\* of key k, isUsed is true on every catalog entry of k, in every locale; and
\* between operations all the entries of a key have the same isUsed
C21_UsageIsLocaleAgnostic ==
    component = "translations" =>
        /\ \A i \in 1..Len(usages) :
              MapHas(translations, usages[i].key) =>
                  \A j \in 1..Len(MapGet(translations, usages[i].key)) :
                      MapGet(translations, usages[i].key)[j].isUsed
        /\ \A i \in 1..Len(translations) : \A j, k \in 1..Len(translations[i].v) :
              translations[i].v[j].isUsed = translations[i].v[k].isUsed

\* a usage of a key is recorded and the key's entries of two locales are used
C21_Witness ==
    /\ component = "translations"
    /\ \E i \in 1..Len(usages) :
          /\ MapHas(translations, usages[i].key)
          /\ LET entries == MapGet(translations, usages[i].key)
             IN  /\ {entries[j].locale : j \in 1..Len(entries)} = {"en", "fr"}
                 /\ \A j \in 1..Len(entries) : entries[j].isUsed

\* C22: getMissingTranslations returns exactly the distinct keys of the
\* recorded usages that have no catalog entry in any locale, each once; it
\* changes neither the catalog nor the usages
C22_MissingAreUsedWithoutEntry ==
    (component = "translations" /\ answer.op = "getMissingTranslations") =>
        /\ Range(answer.value)
               = {usages[i].key : i \in 1..Len(usages)} \ MapKeys(translations)
        /\ Cardinality(Range(answer.value)) = Len(answer.value)
        /\ \A i \in 1..Len(answer.value) :
              \A j \in 1..Len(translations) : \A k \in 1..Len(translations[j].v) :
                  translations[j].v[k].key # answer.value[i]

\* getMissingTranslations has returned one key, of which several usages are
\* recorded, while another used key has entries
C22_Witness ==
    /\ component = "translations"
    /\ answer.op = "getMissingTranslations"
    /\ Len(answer.value) = 1
    /\ Cardinality({i \in 1..Len(usages) : usages[i].key = answer.value[1]}) > 1
    /\ \E i \in 1..Len(usages) : MapHas(translations, usages[i].key)

(***************************************************************************)
(* Claims about route names and groups                                     *)
(***************************************************************************)
\* the lines of routes/web.php
WebPhp == routeFs.files["web.php"].content

\* the lines at most two after line n at which the route declared by line n
\* is still the last one of the file and which hold ->name(...)
NamingLines(lines, n) ==
    {k \in n..n + 2 :
        /\ k <= Len(lines)
        /\ lines[k].name # None
        /\ \A j \in n + 1..k : lines[j].kind # "route"}

\* the name the claim gives the route declared by line n: that of the last
\* such line, none when there is no such line
NameOf(lines, n) ==
    IF NamingLines(lines, n) = {} THEN None
    ELSE lines[CHOOSE k \in NamingLines(lines, n) :
                   \A j \in NamingLines(lines, n) : j <= k].name

\* C23: a line with ->name('N') names the route most recently added for the
\* file when that route is within two lines of it, and changes the name of no
\* other route; when no route of the file is within two lines, no name changes
C23_NameGoesToLastRoute ==
    (component = "routes" /\ routeFs.files["web.php"].exists) =>
        /\ {r.line : r \in IndexedRoutes} = {n \in 1..Len(WebPhp) : WebPhp[n].kind = "route"}
        /\ \A r \in IndexedRoutes : r.name = NameOf(WebPhp, r.line)

\* a route was named by a line two lines after it, and another ->name(...)
\* three lines after a route has left that route without a name
C23_Witness ==
    /\ component = "routes"
    /\ routeFs.files["web.php"].exists
    /\ \E r \in IndexedRoutes :
          /\ r.line + 2 <= Len(WebPhp)
          /\ WebPhp[r.line].name = None
          /\ WebPhp[r.line + 1].name = None
          /\ WebPhp[r.line + 2].name # None
          /\ r.name = WebPhp[r.line + 2].name
    /\ \E r \in IndexedRoutes :
          /\ r.line + 3 <= Len(WebPhp)
          /\ WebPhp[r.line + 3].name # None
          /\ WebPhp[r.line + 3].kind = "name"
          /\ r.name = None

\* the value of groupLevel after the first n lines of a file
RECURSIVE GroupLevel(_, _)
GroupLevel(lines, n) ==
    IF n = 0 THEN 0
    ELSE LET level == GroupLevel(lines, n - 1)
         IN  IF lines[n].kind = "group" THEN level + 1
             ELSE IF lines[n].kind = "close" /\ level > 0 THEN level - 1
             ELSE level

\* the last of the first n lines that is a closing marker processed at
\* depth 1; 0 when there is none
LastEmptied(lines, n) ==
    LET closings == {k \in 1..n : lines[k].kind = "close" /\ GroupLevel(lines, k - 1) = 1}
    IN  IF closings = {} THEN 0
        ELSE CHOOSE k \in closings : \A j \in closings : j <= k

\* the Route::group lines among lines from + 1 .. to
GroupsBetween(lines, from, to) ==
    {k \in from + 1..to : lines[k].kind = "group"}

\* C24: after a line that is exactly '});' is processed at nesting depth 1
\* the group context is empty: a route declared after it outside any group
\* carries no group middleware and no prefix, and the routes of a sibling
\* group that follows carry the middleware of that group only
C24_ClosingEmptiesContext ==
    (component = "routes" /\ routeFs.files["web.php"].exists) =>
        \A r \in IndexedRoutes :
            LET emptied == LastEmptied(WebPhp, r.line)
                since == GroupsBetween(WebPhp, emptied, r.line)
            IN  emptied > 0 =>
                    /\ since = {} =>
                           /\ r.middleware = <<>>
                           /\ r.uri = WebPhp[r.line].uri \o UriSuffix(WebPhp[r.line])
                    /\ (\E g \in since : since = {g}) =>
                           \A g \in since : r.middleware = WebPhp[g].middleware

\* a group with a route was closed at depth 1, and the route of the sibling
\* group that follows carries that group's middleware only
C24_Witness ==
    /\ component = "routes"
    /\ routeFs.files["web.php"].exists
    /\ Len(WebPhp) = 4
    /\ WebPhp[1] = GroupAdmin
    /\ WebPhp[2] = CloseLine
    /\ WebPhp[3] = GroupV1
    /\ \E r \in IndexedRoutes : r.line = 4 /\ r.middleware = <<"verified">>

\* C28: group middleware is scoped to its group: a route declared after the
\* closing line of an inner Route::group and still inside the outer group
\* carries the outer group's middleware only; the nesting counter is never
\* negative
C28_MiddlewareIsScoped ==
    (component = "routes" /\ routeFs.files["web.php"].exists) =>
        /\ \A n \in 0..Len(WebPhp) : GroupLevel(WebPhp, n) >= 0
        /\ \A r \in IndexedRoutes :
              LET open == OpenGroups(WebPhp, r.line - 1)
              IN  Len(open) = 1 => r.middleware = open[1].middleware

\* The same for the routes before which no inner group was opened
MiddlewareOfOneGroup ==
    (component = "routes" /\ routeFs.files["web.php"].exists) =>
        \A r \in IndexedRoutes :
            LET open == OpenGroups(WebPhp, r.line - 1)
                since == GroupsBetween(WebPhp, LastEmptied(WebPhp, r.line), r.line)
            IN  (Len(open) = 1 /\ Cardinality(since) = 1) =>
                    r.middleware = open[1].middleware


(***************************************************************************)
(* Claims about the completions of validation rules                        *)
(***************************************************************************)
\* the field name without its last piece, and that followed by 's'
Stem(fieldName) == SubSeq(fieldName, 1, Len(fieldName) - 1)
PluralizedStem(fieldName) == Stem(fieldName) \o <<"s">>

\* C25: for the 'table' parameter of exists and unique and every field name
\* ending in '_id', the table pre-filled by getParameterPlaceholder is the
\* field name with the trailing '_id' removed followed by 's', also when
\* '_id' occurs earlier in the field name; for every other non-empty field
\* name the fallback 'users' is pre-filled.
C25_TableIsPluralizedStem ==
    (answer.op = "getParameterPlaceholder" /\ answer.args # <<>>) =>
        answer.value = IF endsWith(answer.args, IdSuffix)
                       THEN PluralizedStem(answer.args)
                       ELSE <<"user", "s">>

\* The same for the field names that hold '_id' at their end only
TableOfSingleSuffix ==
    (/\ answer.op = "getParameterPlaceholder"
     /\ answer.args # <<>>
     /\ ~includes(Stem(answer.args), IdSuffix)) =>
        answer.value = IF endsWith(answer.args, IdSuffix)
                       THEN PluralizedStem(answer.args)
                       ELSE <<"user", "s">>
(***************************************************************************)
(* Claims about the usage scans                                            *)
(***************************************************************************)
NoScanPending == \A g \in Range(Globs) : scans.pending[g] = 0

\* the places of the usages list that hold the usage u
RecordedAt(u) == {i \in 1..Len(usages) : usages[i] = u}

\* C26: when reloadTranslations ran again while usage scans were pending, and
\* in every other case, once all pending scans have completed the usages list
\* holds each call occurrence (file, line, column, method) exactly once, also
\* for a .blade.php file, which both globs of scanForUsages match.
C26_UsagesAreRecordedOnce ==
    (component = "translations" /\ NoScanPending) =>
        \A u \in Range(usages) : Cardinality(RecordedAt(u)) = 1

\* The same for the files only one glob matches, while no scan of an earlier
\* load was pending when the last one started
UsagesOfOneGlobOnce ==
    (component = "translations" /\ NoScanPending /\ scans.clean) =>
        \A u \in Range(usages) :
            Cardinality({g \in Range(Globs) : GlobMatches(g, u.file)}) = 1 =>
                Cardinality(RecordedAt(u)) = 1
(***************************************************************************)
(* Claims about the lists of the controller index                          *)
(***************************************************************************)
\* the places of the list that hold the route r
PlacesOf(list, r) == {n \in 1..Len(list) : list[n] = r}

\* C27: after buildControllerRouteMap every list of controllerRoutes holds
\* each route at most once, so the list getRoutesForController returns holds
\* no route twice, also for a route whose controller name ends in 'Controller'.
C27_ListsHoldRoutesOnce ==
    component = "routes" =>
        /\ \A i \in 1..Len(controllerRoutes) :
              \A r \in Range(controllerRoutes[i].v) :
                  Cardinality(PlacesOf(controllerRoutes[i].v, r)) = 1
        /\ held.getter = "getRoutesForController" =>
              \A r \in Range(held.value) : Cardinality(PlacesOf(held.value, r)) = 1

\* The same for the routes whose controller name does not end in 'Controller'
ListsHoldOtherRoutesOnce ==
    component = "routes" =>
        \A i \in 1..Len(controllerRoutes) :
            \A r \in Range(controllerRoutes[i].v) :
                ~EndsWith(r.controller, <<Ctl>>) =>
                    Cardinality(PlacesOf(controllerRoutes[i].v, r)) = 1
(***************************************************************************)
(* Claims about the compiled provider                                      *)
(***************************************************************************)
\* the index is as the constructor left it
AsConstructed == component = "schema" /\ lastOp = "analyzeProject"

\* C29: the compiled provider builds at construction the model index the
\* TypeScript source builds for the same project: migrations are analysed
\* before models, so that directly after construction every model field that
\* has a migration column carries the type and nullability of the migration.
C29_CompiledBuildsSameIndex ==
    AsConstructed =>
        /\ models = analyzeProject(schemaFs).models
        /\ \A i \in 1..Len(models) :
              LET model == models[i].v
                  columns == FieldsOf(migrations, model.table)
              IN  \A name \in FieldNames :
                      (HasField(columns, name) /\ HasField(model.fields, name)) =>
                          /\ Resolved(model.fields, name).type = Resolved(columns, name).type
                          /\ Resolved(model.fields, name).nullable =
                                 Resolved(columns, name).nullable

\* The two build the same migration index, and the same model index for a
\* project whose migrations hold no table of a model
CompiledBuildsSameMigrations ==
    AsConstructed =>
        /\ migrations = analyzeProject(schemaFs).migrations
        /\ (\A i \in 1..Len(models) : ~MapHas(migrations, models[i].v.table)) =>
               models = analyzeProject(schemaFs).models
\* C30: provideValidationRuleCompletions offers no rule whose name is among
\* the rules written for the field, their parameters dropped, in the pipe
\* form and in the array form, and every rule it offers is one of the catalog.
C30_OfferedAreNotApplied ==
    answer.op = "provideCompletionItems" =>
        /\ Range(answer.value) \cap AppliedRules(answer.args) = {}
        /\ Range(answer.value) \subseteq Range(validationRules)

\* The same for a field on a line of its own: nothing but spaces before it
OfferedOnOwnLineAreNotApplied ==
    answer.op = "provideCompletionItems" =>
        /\ answer.args.before = Indent =>
               Range(answer.value) \cap AppliedRules(answer.args) = {}
        /\ Range(answer.value) \subseteq Range(validationRules)


====
